---- MODULE Spec2Model ----
(***************************************************************************)
(* RADStrat dual-provider realtime transcription pipeline.                 *)
(*                                                                         *)
(* State machine of the connection pool (connectionPoolStore.ts), the      *)
(* session store (sessionStore.ts), the recording hook (useDualSTT.ts),    *)
(* the pool hook (useConnectionPool.ts) and the provider adapters          *)
(* (elevenlabsRealtime.ts; the base adapter class is not part of the       *)
(* sources and is modelled from the adapter contract).                     *)
(*                                                                         *)
(* Text is a sequence of tokens: a word is the number of the recording     *)
(* cycle whose audio it was transcribed from, SP is a blank.               *)
(***************************************************************************)
EXTENDS Integers, Sequences, FiniteSets, TLC

\* ------------------------------------------------------------------------
\* Bounds of the model
\* ------------------------------------------------------------------------
MaxCycle == 2
MaxRounds == 2
MaxTicks == 1
NumQuestions == 2
NumChoices == 1
\* granularity of the model clock, in milliseconds
TickMs == 240000
\* sockets that fail after they connected
MaxTransportErrors == 1
\* audio frames a chunker delivers
MaxFrames == 1
\* vendor error events the store records per attempt
MaxVendorErrors == 1
\* filler words in a transcript
MaxFillers == 12
\* pieces (words, digits, separators) a sample transcript is made of
MaxPieces == 3
\* words with timings in one vendor message
MaxBatch == 2

\* ------------------------------------------------------------------------
\* Program constants
\* ------------------------------------------------------------------------
TOKEN_REFRESH_BUFFER_MS == 60000
MAX_RECONNECT_ATTEMPTS == 3
RECONNECT_DELAY_MS == 1000
TOKEN_EXPIRY_SECONDS == 300

Providers == {"openai", "elevenlabs"}
Other(p) == IF p = "openai" THEN "elevenlabs" ELSE "openai"

Cycles == 1..MaxCycle
Rounds == 1..MaxRounds

NoToken == -1
NoAdapter == <<>>
AdapterIds == ({"pool"} \X Rounds \X Providers) \cup ({"ondemand"} \X Cycles \X Providers)
ProviderOf(a) == a[3]

SP == 0
EmptyText == <<>>

NoConnError == "Failed to establish any connections"
NoProviderError == "Failed to connect to any STT provider"

VARIABLES
  now,        \* Date.now(), milliseconds
  mounted,    \* App component mounted
  pool,       \* ConnectionPoolState
  rounds,     \* the initialize() calls in flight: their local variables
  nextRound,  \* number of the next initialize() round
  adapters,   \* the adapter objects ever constructed, with the vendor's end
  session,    \* SessionState
  hook,       \* the refs of useDualSTT
  starts,     \* the hook's startRecording() calls: position and locals
  timers,     \* the setTimeout callbacks: pending, or how they ended
  fetches,    \* token requests the pool has issued
  lastInit,   \* how the latest initialize() call ended
  connectLog, \* every connect() call: who made it, was the token stale
  scoring     \* a call of a scoring function: its name, input and result

vars == <<now, mounted, pool, rounds, nextRound, adapters, session,
          hook, starts, timers, fetches, lastInit, connectLog, scoring>>

\* ------------------------------------------------------------------------
\* Text helpers
\* ------------------------------------------------------------------------
RECURSIVE TrimLeft(_)
TrimLeft(s) == IF s # <<>> /\ Head(s) = SP THEN TrimLeft(Tail(s)) ELSE s

RECURSIVE TrimRight(_)
TrimRight(s) ==
  IF s # <<>> /\ s[Len(s)] = SP THEN TrimRight(SubSeq(s, 1, Len(s) - 1)) ELSE s

\* String.prototype.trim
Trim(s) == TrimRight(TrimLeft(s))

\* a || b on strings: the empty string is falsy
OrText(a, b) == IF a # EmptyText THEN a ELSE b

\* ------------------------------------------------------------------------
\* Connection pool: helpers
\* ------------------------------------------------------------------------
isTokenExpired(token) ==
  IF token = NoToken THEN TRUE
  ELSE now >= token - TOKEN_REFRESH_BUFFER_MS

\* the instants of the model clock
TickTimes == {k * TickMs : k \in 0..MaxTicks}

\* the expiry the token endpoint stamps on a token it issues at instant t
ExpiryIssuedAt(t) == t + TOKEN_EXPIRY_SECONDS * 1000

\* what the two token requests issued at instant since can have delivered
\* by now: a request failed (NoToken), or the endpoint served it at some
\* instant between the call and now
FetchOutcomes(since) ==
  [Providers -> {NoToken} \cup
     {ExpiryIssuedAt(t) : t \in {u \in TickTimes : since <= u /\ u <= now}}]

InitialTranscript == [interimText |-> EmptyText, committedText |-> EmptyText,
                      finalText |-> EmptyText]

\* conn, status, transcript, words, sessionStarted: the adapter object.
\* buffered, commits, stamped: the vendor's end of the socket (the cycle
\* whose audio it holds uncommitted, the cycles of the commits it has not
\* answered yet, and the cycle of the answered commit whose word timings
\* it has not sent yet).  disconnects and frames count the disconnect()
\* and sendAudio() calls, startedIn is the recording cycle during which
\* the session-started event was emitted, handled the malformed messages
\* received and whether an error event was emitted for each.
AbsentAdapter == [conn |-> "absent", status |-> "idle",
                  transcript |-> InitialTranscript,
                  words |-> <<>>, sessionStarted |-> FALSE,
                  buffered |-> 0, commits |-> <<>>, stamped |-> 0,
                  disconnects |-> 0, frames |-> 0, startedIn |-> 0,
                  handled |-> {}]

isConnected(a) == a # NoAdapter /\ adapters[a].conn = "connected"

\* new Adapter(); configure(token); connect() is called
NewAdapter == [AbsentAdapter EXCEPT !.conn = "connecting"]

\* connect() has resolved, during recording cycle c: the vendor has
\* acknowledged the session (handleSessionStarted has run)
\* a connect() that resolves when the socket opens, before the vendor's
\* session_started: C17 fails on such an adapter
SocketOpenOnly(rec, c) ==
  [rec EXCEPT !.conn = "connected", !.status = "connected"]

SessionReady(rec, c) ==
  [rec EXCEPT !.conn = "connected", !.status = "connected",
              !.sessionStarted = TRUE, !.startedIn = c]

InitialPool == [token |-> [p \in Providers |-> NoToken],
                adapter |-> [p \in Providers |-> NoAdapter],
                isInitializing |-> FALSE,
                isReady |-> FALSE,
                error |-> "null",
                reconnectAttempts |-> 0]

IdleRound == [phase |-> "none",
              since |-> 0,
              exp |-> [p \in Providers |-> NoToken],
              conn |-> [p \in Providers |-> "none"]]

\* ------------------------------------------------------------------------
\* Session store (sessionStore.ts): every action is a function of the state
\* ------------------------------------------------------------------------
NoChoice == -1
NoMetrics == <<>>

\* metrics holds the transcript the scores were computed from: the scoring
\* functions are pure functions of it and of the question
createInitialProviderResult ==
  [status |-> "idle", transcript |-> InitialTranscript, words |-> <<>>,
   metrics |-> NoMetrics, errors |-> <<>>]

\* questions: questionBank.questions.length, 0 while questionBank is null
initialState ==
  [questionBank |-> FALSE,
   questions |-> 0,
   currentQuestionIndex |-> 0,
   selectedChoiceIndex |-> NoChoice,
   recordingState |-> "idle",
   result |-> [p \in Providers |-> createInitialProviderResult],
   testMode |-> "read-aloud",
   openEndedResult |-> <<>>,
   isAIScoring |-> FALSE]

\* bank: the number of questions of the bank
loadBank(s, bank) ==
  [s EXCEPT !.questionBank = TRUE,
            !.questions = bank,
            !.currentQuestionIndex = 0,
            !.selectedChoiceIndex = NoChoice,
            !.recordingState = "idle",
            !.result = [p \in Providers |-> createInitialProviderResult]]

selectChoice(s, index) ==
  IF s.recordingState # "idle" THEN s
  ELSE IF index >= 0 /\ index <= 3 THEN [s EXCEPT !.selectedChoiceIndex = index]
  ELSE s

canTalk(s) ==
  IF s.testMode = "open-ended"
  THEN s.questionBank /\ s.recordingState = "idle"
  ELSE s.questionBank /\ s.selectedChoiceIndex # NoChoice /\ s.recordingState = "idle"

\* a start that keeps the results of the attempt before: C16 fails on
\* such a store
startKeepingResults(s) ==
  IF canTalk(s) THEN [s EXCEPT !.recordingState = "listening"] ELSE s

\* a start that asks for a choice in neither mode
startWithoutChoice(s) ==
  IF ~s.questionBank \/ s.recordingState # "idle" THEN s
  ELSE [s EXCEPT !.recordingState = "listening",
                 !.result = [p \in Providers |->
                    [createInitialProviderResult EXCEPT !.status = "connecting"]],
                 !.openEndedResult = <<>>,
                 !.isAIScoring = FALSE]

storeStartRecording(s) ==
  IF ~s.questionBank THEN s
  ELSE IF s.testMode = "read-aloud" /\ s.selectedChoiceIndex = NoChoice THEN s
  ELSE IF s.recordingState # "idle" THEN s
  ELSE [s EXCEPT !.recordingState = "listening",
                 !.result = [p \in Providers |->
                    [createInitialProviderResult EXCEPT !.status = "connecting"]],
                 !.openEndedResult = <<>>,
                 !.isAIScoring = FALSE]

storeStopRecording(s) ==
  IF s.recordingState # "listening" THEN s
  ELSE [s EXCEPT !.recordingState = "processing"]

setRecordingCompleted(s) == [s EXCEPT !.recordingState = "completed"]

updateProviderStatus(s, provider, status) ==
  [s EXCEPT !.result[provider].status = status]

\* { ...currentResult.transcript, ...transcript }
updateProviderTranscript(s, provider, patch) ==
  [s EXCEPT !.result[provider].transcript =
     [f \in DOMAIN @ |-> IF f \in DOMAIN patch THEN patch[f] ELSE @[f]]]

updateProviderWords(s, provider, words) ==
  [s EXCEPT !.result[provider].words = words]

\* an error recorded on the session as a whole: C22 fails on such a store
setErrorOnBoth(s, provider, error) ==
  [s EXCEPT !.result = [p \in Providers |->
     [@[p] EXCEPT !.status = "error", !.errors = Append(@, error)]]]

setProviderError(s, provider, error) ==
  [s EXCEPT !.result[provider].status = "error",
            !.result[provider].errors = Append(@, error)]

resetProvider(s, provider) ==
  [s EXCEPT !.result[provider] = createInitialProviderResult]

getCurrentQuestion(s) ==
  IF ~s.questionBank \/ s.currentQuestionIndex >= s.questions
  THEN "null" ELSE "question"

computeScores(s, provider) ==
  LET result == s.result[provider]
      transcript == OrText(result.transcript.finalText,
                      OrText(result.transcript.committedText,
                             result.transcript.interimText))
      scored == [s EXCEPT !.result[provider].status = "completed",
                          !.result[provider].metrics = transcript]
  IN IF getCurrentQuestion(s) = "null" THEN s
     ELSE IF transcript = EmptyText THEN s
     ELSE IF \A p \in Providers : scored.result[p].status = "completed"
          THEN [scored EXCEPT !.recordingState = "completed"]
          ELSE scored

nextQuestion(s) ==
  IF ~s.questionBank THEN s
  ELSE IF s.currentQuestionIndex + 1 < s.questions
  THEN [s EXCEPT !.currentQuestionIndex = s.currentQuestionIndex + 1,
                 !.selectedChoiceIndex = NoChoice,
                 !.recordingState = "idle",
                 !.result = [p \in Providers |-> createInitialProviderResult],
                 !.openEndedResult = <<>>,
                 !.isAIScoring = FALSE]
  ELSE s

\* a step back that does not look at the index: C40 fails on such a store
previousUnguarded(s) ==
  [s EXCEPT !.currentQuestionIndex = s.currentQuestionIndex - 1,
            !.selectedChoiceIndex = NoChoice,
            !.recordingState = "idle",
            !.result = [p \in Providers |-> createInitialProviderResult],
            !.openEndedResult = <<>>,
            !.isAIScoring = FALSE]

previousQuestion(s) ==
  IF s.currentQuestionIndex > 0
  THEN [s EXCEPT !.currentQuestionIndex = s.currentQuestionIndex - 1,
                 !.selectedChoiceIndex = NoChoice,
                 !.recordingState = "idle",
                 !.result = [p \in Providers |-> createInitialProviderResult],
                 !.openEndedResult = <<>>,
                 !.isAIScoring = FALSE]
  ELSE s

goToQuestion(s, index) ==
  IF ~s.questionBank THEN s
  ELSE IF index >= 0 /\ index < s.questions
  THEN [s EXCEPT !.currentQuestionIndex = index,
                 !.selectedChoiceIndex = NoChoice,
                 !.recordingState = "idle",
                 !.result = [p \in Providers |-> createInitialProviderResult],
                 !.openEndedResult = <<>>,
                 !.isAIScoring = FALSE]
  ELSE s

repeatQuestion(s) ==
  [s EXCEPT !.recordingState = "idle",
            !.result = [p \in Providers |-> createInitialProviderResult],
            !.openEndedResult = <<>>,
            !.isAIScoring = FALSE]

\* { ...initialState, questionBank }
resetSession(s) ==
  [initialState EXCEPT !.questionBank = s.questionBank,
                       !.questions = s.questions]

setTestMode(s, mode) ==
  IF mode = s.testMode THEN s
  ELSE [s EXCEPT !.testMode = mode,
                 !.selectedChoiceIndex = NoChoice,
                 !.recordingState = "idle",
                 !.result = [p \in Providers |-> createInitialProviderResult],
                 !.openEndedResult = <<>>,
                 !.isAIScoring = FALSE]

\* ------------------------------------------------------------------------
\* Provider adapter: the methods of the base class, on the adapter table
\* ------------------------------------------------------------------------
Connected(ad, a) == a # NoAdapter /\ ad[a].conn = "connected"

\* disconnect(): the call is counted also when it throws
Disconnect(ad, a, throws) ==
  [ad EXCEPT ![a].disconnects = @ + 1,
             ![a].conn = IF throws THEN @ ELSE "disconnected"]

\* resetForNewRecording(): transcript and word timings cleared, socket and
\* session kept
ResetForNewRecording(ad, a) ==
  [ad EXCEPT ![a].transcript = InitialTranscript,
             ![a].words = <<>>,
             ![a].status = IF ad[a].conn = "connected" THEN "connected" ELSE @]

\* the states sendAudio() transmits in: session-ready, listening, processing
ListeningCapable(status) == status \in {"connected", "listening", "processing"}

\* sendAudio(chunk) of recording cycle c: a no-op unless the adapter is in
\* a listening-capable state, else the vendor now holds audio of c
SendAudio(ad, a, c) ==
  IF ListeningCapable(ad[a].status)
  THEN [ad EXCEPT ![a].status = "listening", ![a].buffered = c,
                  ![a].frames = @ + 1]
  ELSE [ad EXCEPT ![a].frames = @ + 1]

\* endAudio(): the end-of-audio message commits what the vendor holds
EndAudio(ad, a) ==
  [ad EXCEPT ![a].status = "processing",
             ![a].commits = IF ad[a].buffered # 0
                            THEN Append(@, ad[a].buffered) ELSE @,
             ![a].buffered = 0]

\* ------------------------------------------------------------------------
\* Connection pool store (connectionPoolStore.ts)
\* ------------------------------------------------------------------------
Held(p_) == {p_.adapter[p] : p \in Providers} \ {NoAdapter}

\* a reset that closes the sockets and waits for the next initialize():
\* C12 fails on such a pool
resetByDisconnect(ad) ==
  [a \in AdapterIds |->
     IF a \in Held(pool)
     THEN Disconnect(ResetForNewRecording(ad, a), a, FALSE)[a] ELSE ad[a]]

resetAdaptersForNewRecording(ad) ==
  [a \in AdapterIds |->
     IF a \in Held(pool) THEN ResetForNewRecording(ad, a)[a] ELSE ad[a]]

getAdapter(provider) == pool.adapter[provider]

\* teardown(): each held adapter is disconnected inside its own try/catch,
\* then every field is cleared.  throwing: the adapters whose disconnect()
\* throws.
teardownAdapters(ad, throwing) ==
  [a \in AdapterIds |->
     IF a \in Held(pool) THEN Disconnect(ad, a, a \in throwing)[a] ELSE ad[a]]

\* teardown() without the try/catch around disconnect(): a throw skips
\* the final set().  C10 fails on such a pool.
teardownUncaught(throwing) ==
  IF throwing \cap Held(pool) # {} THEN pool ELSE InitialPool

teardownPool(throwing) == InitialPool

\* ------------------------------------------------------------------------
\* Recording hook (useDualSTT.ts): helpers
\* ------------------------------------------------------------------------
InitialHook == [recordingCycle |-> 0,
                listeners |-> {},
                usingFallback |-> FALSE,
                fallback |-> [p \in Providers |-> NoAdapter],
                chunker |-> 0,
                running |-> {},
                errorRef |-> "null"]

NoStart == [pc |-> "none", ad |-> [p \in Providers |-> NoAdapter], frames |-> 0]

FallbackHeld(h) == {h.fallback[p] : p \in Providers} \ {NoAdapter}

\* cleanup(): listeners, chunker and microphone, fallback adapters.
\* chunker is the start whose chunker (and microphone stream) the refs
\* hold, running the starts whose chunker has not been stopped.
cleanupHook(h) ==
  [h EXCEPT !.listeners = {},
            !.chunker = 0,
            !.running = @ \ {h.chunker},
            !.fallback = IF h.usingFallback
                         THEN [p \in Providers |-> NoAdapter] ELSE @,
            !.usingFallback = FALSE]

cleanupAdapters(h, ad) ==
  [a \in AdapterIds |->
     IF h.usingFallback /\ a \in FallbackHeld(h)
     THEN Disconnect(ad, a, FALSE)[a] ELSE ad[a]]

\* startRecording, lines 333-356, for one provider
attachProvider(s, ad, provider, a) ==
  IF a # NoAdapter
  THEN IF Connected(ad, a)
       THEN updateProviderStatus(s, provider, "listening")
       ELSE setProviderError(s, provider, "Adapter not connected")
  ELSE setProviderError(s, provider, "No adapter available")

attachBoth(s, ad, adp) ==
  attachProvider(attachProvider(s, ad, "openai", adp["openai"]),
                 ad, "elevenlabs", adp["elevenlabs"])

attachListeners(h, ad, adp) ==
  [h EXCEPT !.listeners =
     @ \cup {adp[p] : p \in {q \in Providers : Connected(ad, adp[q])}}]

\* the catch block of startRecording
startCatch(s, h, ad, message) ==
  [session |-> storeStopRecording(s),
   hook |-> [cleanupHook(h) EXCEPT !.errorRef = message],
   adapters |-> cleanupAdapters(h, ad),
   pc |-> "done"]

\* a start that goes on to the microphone without an adapter: C24 fails
\* on it
withOrWithoutAdapters(s, h, ad, adp) ==
  [session |-> attachBoth(s, ad, adp),
   hook |-> attachListeners(h, ad, adp),
   adapters |-> ad,
   pc |-> "mic"]

\* startRecording from "Check if we have at least one adapter" up to the
\* microphone request
withAdapters(s, h, ad, adp) ==
  IF \A p \in Providers : adp[p] = NoAdapter
  THEN startCatch(s, h, ad, NoProviderError)
  ELSE [session |-> attachBoth(s, ad, adp),
        hook |-> attachListeners(h, ad, adp),
        adapters |-> ad,
        pc |-> "mic"]

\* the listeners setupProviderEvents registers, as functions of the store
onTranscriptInterim(s, provider, text) ==
  updateProviderTranscript(s, provider, [interimText |-> text])

onTranscriptCommitted(s, provider, text) ==
  updateProviderTranscript(s, provider, [committedText |-> text])

\* words: adapter.getWordTimings() at the time of the event
onTranscriptFinal(s, provider, text, words) ==
  LET s1 == updateProviderStatus(
              updateProviderTranscript(s, provider, [finalText |-> text]),
              provider, "processing")
      s2 == IF words # <<>> THEN updateProviderWords(s1, provider, words) ELSE s1
  IN computeScores(s2, provider)

onConnectionError(s, provider) == updateProviderStatus(s, provider, "error")

\* the finalization timeout's body for one provider: state is the
\* snapshot taken at the top of the callback, s the store it writes to
\* a timeout that completes the attempt without the fallback to the
\* last known text: C21 fails on such a hook
completeWithoutText(state, s, provider) == s

forceCompletion(state, s, provider) ==
  LET t == state.result[provider].transcript
  IN IF state.result[provider].status # "completed"
        /\ OrText(t.committedText, t.interimText) # EmptyText
     THEN computeScores(
            updateProviderTranscript(s, provider,
              [finalText |-> OrText(t.committedText, t.interimText)]),
            provider)
     ELSE s

\* a setTimeout callback of the hook, scheduled in cycle c and not yet run
Pending(kind, c) == [kind |-> kind, cycle |-> c, state |-> "pending"]

\* the callback has run: to its end ("ran"), or it returned at its cycle
\* check ("stale") or at its recordingState check ("skipped")
Fired(t, how) == [t EXCEPT !.state = how]

\* a timeout without the cycle check: C3 fails on such a hook
AnyCycle(h, c) == TRUE

\* is the timeout stamped with cycle c still the current one
IsCurrentCycle(h, c) == h.recordingCycle = c

finalizationTimeout(s, h, cycleAtStop) ==
  IF ~IsCurrentCycle(h, cycleAtStop) THEN s
  ELSE setRecordingCompleted(
         forceCompletion(s, forceCompletion(s, s, "openai"), "elevenlabs"))

finalizationTimeoutHook(h, cycleAtStop) ==
  IF ~IsCurrentCycle(h, cycleAtStop) THEN h
  ELSE [h EXCEPT !.listeners = {}]

\* ------------------------------------------------------------------------
\* ElevenLabs adapter (elevenlabsRealtime.ts): message handlers
\* ------------------------------------------------------------------------
handlePartialTranscript(ad, a, text) ==
  [ad EXCEPT ![a].transcript.interimText = text]

handleCommittedTranscript(ad, a, text) ==
  [ad EXCEPT ![a].transcript =
               [committedText |-> @.committedText \o text \o <<SP>>,
                interimText |-> EmptyText,
                finalText |-> text],
             ![a].status = "completed"]

\* addWordTiming(): the timing is put at the end of the adapter's list
addWordTiming(wordTimings, wordTiming) == Append(wordTimings, wordTiming)

\* processWordTimings without the test for a tracked timing: C23 fails on it
processUntracked(wordTimings, words) ==
  LET timing(n) == [word |-> words[n].word,
                    startMs |-> (words[n].start + 1) \div 2,
                    endMs |-> (words[n].end + 1) \div 2,
                    confidence |-> words[n].confidence]
      all == [n \in 1..Len(words) |-> timing(n)]
  IN [wordTimings |-> wordTimings \o all, emitted |-> all]

\* processWordTimings: the vendor's start and end, here in half
\* milliseconds, are rounded to milliseconds; a timing is added, and a
\* word_timing event emitted for it, unless one with the same word, start
\* and end is tracked.  wordTimings: the adapter's list after the call,
\* emitted: the data of the events
processWordTimings(wordTimings, words) ==
  LET MathRound(halves) == (halves + 1) \div 2
      after[n \in 0..Len(words)] ==
        IF n = 0 THEN [wordTimings |-> wordTimings, emitted |-> <<>>]
        ELSE LET wordTiming == [word |-> words[n].word,
                                startMs |-> MathRound(words[n].start),
                                endMs |-> MathRound(words[n].end),
                                confidence |-> words[n].confidence]
                 tracked == after[n - 1].wordTimings
                 exists == \E i \in 1..Len(tracked) :
                             /\ tracked[i].word = wordTiming.word
                             /\ tracked[i].startMs = wordTiming.startMs
                             /\ tracked[i].endMs = wordTiming.endMs
             IN IF exists THEN after[n - 1]
                ELSE [wordTimings |-> addWordTiming(tracked, wordTiming),
                      emitted |-> Append(after[n - 1].emitted, wordTiming)]
  IN after[Len(words)]

handleCommittedTranscriptWithTimestamps(ad, a, text, words) ==
  handleCommittedTranscript(
    [ad EXCEPT ![a].words = processWordTimings(@, words).wordTimings], a, text)

\* addError(): the message is recorded on the adapter
AddError(ad, a) == ad

handleErrorEvent(ad, a) == [AddError(ad, a) EXCEPT ![a].status = "error"]

\* handleMessage on a message that is binary, is not JSON, or has an
\* unknown message_type: the first and the last are logged, the second is
\* logged and passed to addError(); surfaced: an error event was emitted
\* (emits: addError() emits one)
handleMalformed(ad, a, kind, emits) ==
  LET ad1 == IF kind = "unparseable" THEN AddError(ad, a) ELSE ad
  IN [ad1 EXCEPT ![a].handled =
        @ \cup {[kind |-> kind, surfaced |-> kind = "unparseable" /\ emits]}]

\* the text the transcript_final event carries
FinalEventText(ad, a) == Trim(ad[a].transcript.committedText)

\* ------------------------------------------------------------------------
\* Scoring (scoring/overall.ts)
\* ------------------------------------------------------------------------
\* A JavaScript number n/10 + k * 2^-56 / 10 is the pair <<n, k>>: the
\* scores are integers, the weights 0.5, 0.3 and 0.2 are the doubles
\* 5/10, 3/10 - 8 * 2^-56 / 10 and 2/10 + 8 * 2^-56 / 10.
\*
\* RoundToDouble(x): the double nearest to the exact value x (ties to
\* even), for 0 <= x <= 128.  With 2^e4 / 16 the power of two at or below
\* x, doubles near x are the multiples of g = 2^(e4 - 56); x / g is
\* m + y / d for an integer m of parity par.
RoundToDouble(x) ==
  LET n == x[1]
      k == x[2]
      Pow2[i \in 0..12] == IF i = 0 THEN 1 ELSE 2 * Pow2[i - 1]
      e0 == CHOOSE e \in 0..10 :
              10 * Pow2[e] <= 16 * n /\ 16 * n < 10 * Pow2[e + 1]
      e4 == IF 16 * n = 10 * Pow2[e0] /\ k < 0 THEN e0 - 1 ELSE e0
      j == 56 - e4
      t == Pow2[e4]
      p20 == <<4, 8, 16, 12>>[((j - 2) % 4) + 1]
      m20 == ((n % 20) * p20) % 20
      r == m20 % 10
      par == ((m20 - r) \div 10) % 2
      y == r * t + k
      d == 10 * t
      q == y \div d
      rem == y % d
      up == IF 2 * rem > d THEN q + 1
            ELSE IF 2 * rem < d THEN q
            ELSE IF (par + q) % 2 = 0 THEN q ELSE q + 1
  IN IF n = 0 THEN <<0, 0>> ELSE <<n, (10 * up - r) * t>>

clamp(value, min, max) ==
  LET less(a, b) == a[1] < b[1] \/ (a[1] = b[1] /\ a[2] < b[2])
      low == IF less(max, value) THEN max ELSE value
  IN IF less(low, min) THEN min ELSE low

\* the result is the integer Math.round returns
calculateOverall(accuracy, fluency, structure) ==
  LET clampedAccuracy == clamp(<<10 * accuracy, 0>>, <<0, 0>>, <<1000, 0>>)[1] \div 10
      clampedFluency == clamp(<<10 * fluency, 0>>, <<0, 0>>, <<1000, 0>>)[1] \div 10
      clampedStructure == clamp(<<10 * structure, 0>>, <<0, 0>>, <<1000, 0>>)[1] \div 10
      plus(a, b) == RoundToDouble(<<a[1] + b[1], a[2] + b[2]>>)
      weighted ==
        plus(plus(<<5 * clampedAccuracy, 0>>,
                  RoundToDouble(<<3 * clampedFluency, -8 * clampedFluency>>)),
             RoundToDouble(<<2 * clampedStructure, 8 * clampedStructure>>))
      w == clamp(weighted, <<0, 0>>, <<1000, 0>>)
      MathRound(v) == IF v[1] % 10 > 5 \/ (v[1] % 10 = 5 /\ v[2] >= 0)
                      THEN (v[1] \div 10) + 1 ELSE v[1] \div 10
  IN MathRound(w)

\* ------------------------------------------------------------------------
\* Radio transcript normalization (scoring/radioNormalize.ts)
\* ------------------------------------------------------------------------
\* Texts are strings. A regular expression of the source is a matcher that
\* gives, for a position of the text, <<>> or <<position after the match,
\* replacement>>. The passes of a loop are evaluated one after the other,
\* each on the value the pass before it produced.
LowerCaseLetters == "abcdefghijklmnopqrstuvwxyz"
UpperCaseLetters == "ABCDEFGHIJKLMNOPQRSTUVWXYZ"
Digits == {"0", "1", "2", "3", "4", "5", "6", "7", "8", "9"}
CharAt(text, i) == IF i \in 1..Len(text) THEN SubSeq(text, i, i) ELSE ""
IsLetter(c) == \E n \in 1..26 : c = SubSeq(LowerCaseLetters, n, n)
IsDigit(c) == c \in Digits
\* \s
IsSpace(c) == c \in {" ", "\t", "\n"}
\* \w
IsWordChar(c) ==
  \/ IsLetter(c)
  \/ IsDigit(c)
  \/ c = "_"
  \/ \E n \in 1..26 : c = SubSeq(UpperCaseLetters, n, n)
\* \b before position i
Boundary(text, i) == IsWordChar(CharAt(text, i - 1)) # IsWordChar(CharAt(text, i))
StartsWith(text, i, literal) ==
  /\ i + Len(literal) - 1 <= Len(text)
  /\ SubSeq(text, i, i + Len(literal) - 1) = literal
\* the position after the longest run of characters of one class from i on
RunEnd(text, i, InClass(_)) ==
  CHOOSE j \in i..(Len(text) + 1) :
    /\ \A k \in i..(j - 1) : InClass(CharAt(text, k))
    /\ ~InClass(CharAt(text, j))
\* String.prototype.toLowerCase
toLowerCase(text) ==
  LET lower(c) ==
        IF \E n \in 1..26 : c = SubSeq(UpperCaseLetters, n, n)
        THEN LET n == CHOOSE n \in 1..26 : c = SubSeq(UpperCaseLetters, n, n)
             IN SubSeq(LowerCaseLetters, n, n)
        ELSE c
      out[i \in 0..Len(text)] ==
        IF i = 0 THEN "" ELSE out[i - 1] \o lower(CharAt(text, i))
  IN out[Len(text)]
\* String.prototype.replace with a global pattern: leftmost matches, the
\* scan going on after each match, the replacement never scanned again
replace(text, Match(_, _)) ==
  LET out[i \in 1..(Len(text) + 1)] ==
        IF i > Len(text) THEN ""
        ELSE LET m == Match(text, i)
             IN IF m = <<>> THEN SubSeq(text, i, i) \o out[i + 1]
                ELSE m[2] \o out[m[1]]
  IN out[1]
\* /\bword\b/g
WordMatch(word, replacement, text, i) ==
  IF Boundary(text, i) /\ StartsWith(text, i, word)
     /\ Boundary(text, i + Len(word))
  THEN <<i + Len(word), replacement>> ELSE <<>>
\* /\s+/g -> ' '
collapseSpaces(text) ==
  replace(text, LAMBDA t, i :
    IF IsSpace(CharAt(t, i)) THEN <<RunEnd(t, i, IsSpace), " ">> ELSE <<>>)
\* String.prototype.trim
trim(text) ==
  LET inked == {i \in 1..Len(text) : ~IsSpace(CharAt(text, i))}
      first == CHOOSE i \in inked : \A j \in inked : i <= j
      last == CHOOSE i \in inked : \A j \in inked : j <= i
  IN IF inked = {} THEN "" ELSE SubSeq(text, first, last)
\* the value of a key in the entries of an object literal
Lookup(entries, key) ==
  entries[CHOOSE n \in 1..Len(entries) : entries[n][1] = key][2]
\* for (const [word, spoken] of entries) text = text.replace(/\bword\b/g, spoken),
\* from the n-th entry on
RECURSIVE replaceEntriesFrom(_, _, _)
replaceEntriesFrom(text, entries, n) ==
  IF n > Len(entries) THEN text
  ELSE CHOOSE result \in
         {replaceEntriesFrom(replaced, entries, n + 1) :
            replaced \in {replace(text, LAMBDA t, i :
                            WordMatch(entries[n][1], entries[n][2], t, i))}} : TRUE
replaceEntries(text, entries) == replaceEntriesFrom(text, entries, 1)

DIGIT_TO_WORD ==
  << <<"0", "zero">>, <<"1", "one">>, <<"2", "two">>, <<"3", "three">>,
     <<"4", "four">>, <<"5", "five">>, <<"6", "six">>, <<"7", "seven">>,
     <<"8", "eight">>, <<"9", "nine">> >>
WORD_TO_DIGIT ==
  << <<"zero", "0">>, <<"one", "1">>, <<"two", "2">>, <<"three", "3">>,
     <<"four", "4">>, <<"five", "5">>, <<"six", "6">>, <<"seven", "7">>,
     <<"eight", "8">>, <<"nine", "9">>, <<"niner", "9">> >>
COMPOUND_NUMBERS ==
  << <<"ten", "one zero">>, <<"eleven", "one one">>, <<"twelve", "one two">>,
     <<"thirteen", "one three">>, <<"fourteen", "one four">>,
     <<"fifteen", "one five">>, <<"sixteen", "one six">>,
     <<"seventeen", "one seven">>, <<"eighteen", "one eight">>,
     <<"nineteen", "one nine">>, <<"twenty", "two zero">>,
     <<"thirty", "three zero">>, <<"forty", "four zero">>,
     <<"fifty", "five zero">>, <<"sixty", "six zero">>,
     <<"seventy", "seven zero">>, <<"eighty", "eight zero">>,
     <<"ninety", "nine zero">> >>
CALLSIGN_PREFIXES ==
  <<"bowser", "shepherd", "hotel", "alpha", "bravo", "charlie", "delta",
    "echo", "foxtrot", "golf", "india", "juliet", "kilo", "lima", "mike",
    "november", "oscar", "papa", "quebec", "romeo", "sierra", "tango",
    "uniform", "victor", "whiskey", "xray", "x-ray", "yankee", "zulu",
    "fire", "security", "afe", "contractor">>

digitsToSpoken(digits) ==
  LET spoken(d) == IF IsDigit(d) THEN Lookup(DIGIT_TO_WORD, d) ELSE d
      out[i \in 1..Len(digits)] ==
        IF i = 1 THEN spoken(CharAt(digits, 1))
        ELSE out[i - 1] \o " " \o spoken(CharAt(digits, i))
  IN IF digits = "" THEN "" ELSE out[Len(digits)]

\* expandCompoundNumbers without the tens pattern: C29 fails on it
expandStandaloneOnly(text) == replaceEntries(toLowerCase(text), COMPOUND_NUMBERS)

expandCompoundNumbers(text) ==
  LET tensWords == {10 + n : n \in 1..8}
      onesWords == 2..10
      tensPattern(t, i) ==
        LET tens == {n \in tensWords :
                       Boundary(t, i) /\ StartsWith(t, i, COMPOUND_NUMBERS[n][1])}
            tensWord == COMPOUND_NUMBERS[CHOOSE n \in tens : TRUE][1]
            from == i + Len(tensWord)
            onesAt(k) == {n \in onesWords :
                            /\ StartsWith(t, k, WORD_TO_DIGIT[n][1])
                            /\ Boundary(t, k + Len(WORD_TO_DIGIT[n][1]))}
            \* \s* is greedy and gives back space by space
            ends == {k \in from..RunEnd(t, from, IsSpace) :
                       onesAt(k) # {} \/ Boundary(t, k)}
            k == CHOOSE k \in ends : \A other \in ends : other <= k
            ones == WORD_TO_DIGIT[CHOOSE n \in onesAt(k) : TRUE][1]
            tensDigit == Lookup(COMPOUND_NUMBERS, tensWord)
            onesDigit == Lookup(WORD_TO_DIGIT, ones)
            tensFirst == SubSeq(tensDigit, 1, RunEnd(tensDigit, 1, IsLetter) - 1)
        IN IF tens = {} \/ ends = {} THEN <<>>
           ELSE IF onesAt(k) # {}
                THEN <<k + Len(ones), tensFirst \o " " \o Lookup(DIGIT_TO_WORD, onesDigit)>>
                ELSE <<k, tensDigit>>
  IN replaceEntries(replace(toLowerCase(text), tensPattern), COMPOUND_NUMBERS)

\* DIGIT_TO_WORD[digit] for each [word, digit] of WORD_TO_DIGIT
CanonicalWords ==
  [n \in 1..Len(WORD_TO_DIGIT) |->
     <<WORD_TO_DIGIT[n][1], Lookup(DIGIT_TO_WORD, WORD_TO_DIGIT[n][2])>>]

\* /\b(prefix|...)\s*(\d+)\b/g -> 'prefix spoken-digits'
PrefixedDigitsMatch(prefixes, text, i) ==
  LET digitsFrom(p) == RunEnd(text, i + Len(prefixes[p]), IsSpace)
      digitsTo(p) == RunEnd(text, digitsFrom(p), IsDigit)
      matching == {p \in 1..Len(prefixes) :
                     /\ Boundary(text, i)
                     /\ StartsWith(text, i, prefixes[p])
                     /\ digitsTo(p) > digitsFrom(p)
                     /\ Boundary(text, digitsTo(p))}
      p == CHOOSE p \in matching : \A other \in matching : p <= other
  IN IF matching = {} THEN <<>>
     ELSE <<digitsTo(p),
            prefixes[p] \o " "
              \o digitsToSpoken(SubSeq(text, digitsFrom(p), digitsTo(p) - 1))>>

\* /\btaxiway\s*([a-z])\s*(\d+)\b/g -> 'taxiway letter spoken-digits'
TaxiwayMatch(text, i) ==
  LET letterAt == RunEnd(text, i + 7, IsSpace)
      digitsFrom == RunEnd(text, letterAt + 1, IsSpace)
      digitsTo == RunEnd(text, digitsFrom, IsDigit)
  IN IF /\ Boundary(text, i)
        /\ StartsWith(text, i, "taxiway")
        /\ IsLetter(CharAt(text, letterAt))
        /\ digitsTo > digitsFrom
        /\ Boundary(text, digitsTo)
     THEN <<digitsTo,
            "taxiway " \o CharAt(text, letterAt) \o " "
              \o digitsToSpoken(SubSeq(text, digitsFrom, digitsTo - 1))>>
     ELSE <<>>

normalizeRadioNumbers(text) ==
  replace(
    replace(
      replace(
        replace(
          replaceEntries(expandCompoundNumbers(text), CanonicalWords),
          LAMBDA t, i : PrefixedDigitsMatch(CALLSIGN_PREFIXES, t, i)),
        LAMBDA t, i : PrefixedDigitsMatch(<<"runway">>, t, i)),
      TaxiwayMatch),
    LAMBDA t, i :
      PrefixedDigitsMatch(<<"heading", "altitude", "squawk", "flight level">>, t, i))

removePunctuation(text) ==
  trim(collapseSpaces(replace(text, LAMBDA t, i :
    IF CharAt(t, i) \in {".", ",", ";", ":", "!", "?", "'", "\""}
    THEN <<i + 1, " ">> ELSE <<>>)))

normalizeRadioPhrases(text) ==
  LET \* /\bfirst\s+second(\s+third)\b/g
      phrase(words, replacement, t, i) ==
        LET endOf[n \in 1..Len(words)] ==
              LET from == IF n = 1 THEN i
                          ELSE IF endOf[n - 1] = 0 THEN 0
                          ELSE IF IsSpace(CharAt(t, endOf[n - 1]))
                               THEN RunEnd(t, endOf[n - 1], IsSpace) ELSE 0
              IN IF from > 0 /\ StartsWith(t, from, words[n])
                 THEN from + Len(words[n]) ELSE 0
            end == endOf[Len(words)]
        IN IF Boundary(t, i) /\ end > 0 /\ Boundary(t, end)
           THEN <<end, replacement>> ELSE <<>>
      overAndOut == replace(text, LAMBDA t, i :
                      phrase(<<"over", "and", "out">>, "over and out", t, i))
      roger == replace(overAndOut, LAMBDA t, i :
                 phrase(<<"roger", "that">>, "roger", t, i))
      copy == replace(roger, LAMBDA t, i :
                phrase(<<"copy", "that">>, "copy", t, i))
      ground == replace(copy, LAMBDA t, i :
                  phrase(<<"ground", "control">>, "ground", t, i))
  IN replace(ground, LAMBDA t, i : WordMatch("atc", "atc", t, i))

normalizeHyphens(text) ==
  trim(collapseSpaces(replace(text, LAMBDA t, i :
    IF CharAt(t, i) = "-" THEN <<i + 1, " ">> ELSE <<>>)))

normalizeRadioTranscript(text) ==
  IF text = "" THEN ""
  ELSE trim(collapseSpaces(removePunctuation(normalizeRadioPhrases(
         normalizeRadioNumbers(normalizeHyphens(toLowerCase(text)))))))

\* the text made of the pieces, in order
Concat(pieces) ==
  LET out[n \in 0..Len(pieces)] ==
        IF n = 0 THEN "" ELSE out[n - 1] \o pieces[n]
  IN out[Len(pieces)]

\* compareTranscripts(): the two normalized strings, whether they are equal
\* and, when they are not, one line per position at which the tokens of
\* the two differ; a position one side lacks (or holds '' at) reads as
\* '[missing]' on the expected side and as '[extra]' on the actual side
compareTranscripts(expected, actual) ==
  LET \* String.prototype.split(' ')
      split(text) ==
        LET tokens[i \in 0..Len(text)] ==
              IF i = 0 THEN <<"">>
              ELSE IF CharAt(text, i) = " " THEN Append(tokens[i - 1], "")
              ELSE [tokens[i - 1] EXCEPT ![Len(tokens[i - 1])] =
                      @ \o CharAt(text, i)]
        IN tokens[Len(text)]
      \* tokens[i] || placeholder
      tokenOr(tokens, i, placeholder) ==
        IF i <= Len(tokens) /\ tokens[i] # "" THEN tokens[i] ELSE placeholder
      \* the loop over the positions of the longer token list
      diff(expectedTokens, actualTokens) ==
        LET maxLen == IF Len(expectedTokens) >= Len(actualTokens)
                      THEN Len(expectedTokens) ELSE Len(actualTokens)
            differences[i \in 0..maxLen] ==
              IF i = 0 THEN <<>>
              ELSE LET expToken == tokenOr(expectedTokens, i, "[missing]")
                       actToken == tokenOr(actualTokens, i, "[extra]")
                   IN IF expToken # actToken
                      THEN Append(differences[i - 1],
                                  "Position " \o ToString(i) \o ": expected \""
                                    \o expToken \o "\", got \"" \o actToken
                                    \o "\"")
                      ELSE differences[i - 1]
        IN differences[maxLen]
      compare(normalizedExpected, normalizedActual) ==
        LET isEquivalent == normalizedExpected = normalizedActual
        IN [normalizedExpected |-> normalizedExpected,
            normalizedActual |-> normalizedActual,
            isEquivalent |-> isEquivalent,
            differences |-> IF isEquivalent THEN <<>>
                            ELSE diff(split(normalizedExpected),
                                      split(normalizedActual))]
  IN compare(normalizeRadioTranscript(expected),
             normalizeRadioTranscript(actual))

\* ------------------------------------------------------------------------
\* Scoring (scoring/fluency.ts)
\* ------------------------------------------------------------------------
\* a fluency score without the cap on the penalty: C26 fails on it
fluencyUncapped(totalFillers) == 100 - totalFillers * 5

\* calculateFluency on a transcript in which detectFillers() finds
\* totalFillers filler words
calculateFluency(totalFillers) ==
  LET fillerPenalty == IF 50 < totalFillers * 5 THEN 50 ELSE totalFillers * 5
  IN 100 - fillerPenalty

\* ------------------------------------------------------------------------
\* Initial state
\* ------------------------------------------------------------------------
Init ==
  /\ now = 0
  /\ mounted = TRUE
  /\ pool = InitialPool
  /\ rounds = [r \in Rounds |-> IdleRound]
  /\ nextRound = 1
  /\ adapters = [a \in AdapterIds |-> AbsentAdapter]
  /\ session = initialState
  /\ hook = InitialHook
  /\ starts = [c \in Cycles |-> NoStart]
  /\ timers = {}
  /\ fetches = 0
  /\ lastInit = "none"
  /\ connectLog = {}
  /\ scoring = <<>>

poolVars == <<pool, rounds, nextRound, fetches, lastInit>>

\* ------------------------------------------------------------------------
\* Connection pool: initialize()
\* ------------------------------------------------------------------------
\* initialize() without its first guard: C1 fails on such a pool
NoInFlightGuard == FALSE

AlreadyInitializing == pool.isInitializing

\* initialize() without its second guard: C11 fails on such a pool
NoReadyGuard == FALSE

ReadyWithValidTokens ==
  /\ pool.isReady
  /\ ~isTokenExpired(pool.token["openai"])
  /\ ~isTokenExpired(pool.token["elevenlabs"])

\* initialize() up to the first await: the two guards, then the flag is
\* set and both token requests are issued
initialize ==
  IF AlreadyInitializing
  THEN lastInit' = "inflight" /\ UNCHANGED <<pool, rounds, nextRound, fetches>>
  ELSE IF ReadyWithValidTokens
  THEN lastInit' = "ready" /\ UNCHANGED <<pool, rounds, nextRound, fetches>>
  ELSE /\ nextRound <= MaxRounds
       /\ pool' = [pool EXCEPT !.isInitializing = TRUE, !.error = "null"]
       /\ rounds' = [rounds EXCEPT ![nextRound] =
                       [IdleRound EXCEPT !.phase = "fetching", !.since = now]]
       /\ nextRound' = nextRound + 1
       /\ fetches' = fetches + Cardinality(Providers)
       /\ lastInit' = "started"

\* readiness that needs every provider: C2 fails on such a pool
everyConnection(conn) == \A p \in Providers : conn[p] = "ok"

hasConnection(conn) == \E p \in Providers : conn[p] = "ok"

\* the last set() of the try block
finishRound(r, conn, p_) ==
  [p_ EXCEPT !.adapter = [p \in Providers |->
                  IF conn[p] = "ok" THEN <<"pool", r, p>> ELSE NoAdapter],
               !.isInitializing = FALSE,
               !.isReady = hasConnection(conn),
               !.error = IF hasConnection(conn) THEN "null" ELSE NoConnError,
               !.reconnectAttempts = 0]

\* Promise.allSettled of the two token requests resolves with the tokens
\* exp1 (expiry per provider, NoToken for a failed request); initialize()
\* stores them, builds an adapter per token and calls connect() on it, and
\* runs on to Promise.all of the connections
TokenFetchSettles(r, exp1) ==
  LET rd == rounds[r]
      got == {q \in Providers : exp1[q] # NoToken}
      conn1 == [q \in Providers |-> IF q \in got THEN "pending" ELSE "none"]
  IN /\ rd.phase = "fetching"
     /\ IF got = {}
        THEN /\ rounds' = [rounds EXCEPT ![r].exp = exp1, ![r].phase = "done"]
             /\ pool' = finishRound(r, conn1, [pool EXCEPT !.token = exp1])
             /\ UNCHANGED <<adapters, connectLog>>
        ELSE /\ rounds' = [rounds EXCEPT ![r].exp = exp1, ![r].conn = conn1,
                                         ![r].phase = "connecting"]
             /\ pool' = [pool EXCEPT !.token = exp1]
             /\ adapters' = [a \in AdapterIds |->
                    IF a \in {<<"pool", r, q>> : q \in got}
                    THEN NewAdapter ELSE adapters[a]]
             /\ connectLog' = connectLog \cup
                    {[via |-> "pool", stale |-> isTokenExpired(exp1[q])] : q \in got}
     /\ UNCHANGED <<scoring, now, mounted, nextRound, session, hook, starts, timers,
                    fetches, lastInit>>

\* every connect() of the round has settled (oks: the ones that resolved):
\* Promise.all resolves and the round's result is stored
ConnectSettles(r, oks) ==
  LET rd == rounds[r]
      pending == {q \in Providers : rd.conn[q] = "pending"}
      conn1 == [q \in Providers |->
                  IF q \in pending THEN (IF q \in oks THEN "ok" ELSE "failed")
                  ELSE rd.conn[q]]
  IN /\ rd.phase = "connecting"
     /\ oks \subseteq pending
     /\ adapters' = [a \in AdapterIds |->
          IF a \in {<<"pool", r, q>> : q \in pending}
          THEN IF ProviderOf(a) \in oks
               THEN SessionReady(adapters[a], hook.recordingCycle)
               ELSE [adapters[a] EXCEPT !.conn = "error", !.status = "error"]
          ELSE adapters[a]]
     /\ rounds' = [rounds EXCEPT ![r].conn = conn1, ![r].phase = "done"]
     /\ pool' = finishRound(r, conn1, pool)
     /\ UNCHANGED <<scoring, now, mounted, nextRound, session, hook, starts, timers,
                    fetches, lastInit, connectLog>>

\* the catch block of initialize(): the retry branch.  No statement of the
\* try block throws (Promise.allSettled never rejects and every connection
\* promise carries its own catch), so no action of the model reaches it.
initializeCatch(p_) ==
  LET attempts == p_.reconnectAttempts + 1
  IN IF attempts < MAX_RECONNECT_ATTEMPTS
     THEN [pool |-> [p_ EXCEPT !.isInitializing = FALSE,
                               !.reconnectAttempts = attempts,
                               !.error = "Connection failed, retrying"],
           retryAfterMs |-> RECONNECT_DELAY_MS * attempts]
     ELSE [pool |-> [p_ EXCEPT !.isInitializing = FALSE,
                               !.isReady = FALSE,
                               !.error = "Failed to initialize"],
           retryAfterMs |-> 0]

\* useConnectionPool: the effect that runs when the question bank, the
\* question index or the recording state changed
EffectCallsInitialize ==
  /\ \/ session'.questionBank # session.questionBank
     \/ session'.currentQuestionIndex # session.currentQuestionIndex
     \/ session'.recordingState # session.recordingState
  /\ session'.questionBank
  /\ session'.recordingState = "idle"

poolEffect ==
  IF EffectCallsInitialize THEN initialize ELSE UNCHANGED poolVars

\* ------------------------------------------------------------------------
\* The clock
\* ------------------------------------------------------------------------
\* the condition of the scoring effect (App.tsx:168-175) holds and the
\* transcript it reads is not empty (lines 176-179)
ScoringEffectDue ==
  /\ mounted
  /\ session.testMode = "open-ended"
  /\ session.recordingState = "processing"
  /\ session.result["openai"].status = "completed"
  /\ ~session.isAIScoring
  /\ session.openEndedResult = <<>>
  /\ OrText(session.result["openai"].transcript.finalText,
            session.result["openai"].transcript.committedText) # EmptyText

\* the page is followed while it is mounted and until the attempt of the
\* last recording cycle of the model has completed; an effect that is due
\* runs before the next event is handled
Following ==
  /\ mounted
  /\ ~(hook.recordingCycle = MaxCycle /\ session.recordingState = "completed")
  /\ ~ScoringEffectDue

Tick ==
  /\ Following
  /\ now < MaxTicks * TickMs
  /\ now' = now + TickMs
  /\ UNCHANGED <<scoring, mounted, pool, rounds, nextRound, adapters, session, hook,
                 starts, timers, fetches, lastInit, connectLog>>

\* ------------------------------------------------------------------------
\* User interface (App.tsx): what the rendered controls allow
\* ------------------------------------------------------------------------
\* the effect that loads the default bank when none is loaded
LoadBank ==
  /\ mounted
  /\ ~session.questionBank
  /\ session' = loadBank(session, NumQuestions)
  /\ poolEffect
  /\ UNCHANGED <<scoring, now, mounted, adapters, hook, starts, timers, connectLog>>

\* the choice buttons are disabled unless recordingState is idle
SelectChoice(index) ==
  /\ mounted
  /\ session.questionBank
  /\ session.testMode = "read-aloud"
  /\ session.recordingState = "idle"
  /\ session.selectedChoiceIndex # index
  /\ session' = selectChoice(session, index)
  /\ UNCHANGED <<scoring, now, mounted, pool, rounds, nextRound, adapters, hook,
                 starts, timers, fetches, lastInit, connectLog>>

\* Repeat and Next are rendered when recordingState is completed (in
\* open-ended mode: and openEndedResult is set), and the session-complete
\* screen replaces them after the last question
NavigationShown ==
  /\ Following
  /\ session.questionBank
  /\ session.recordingState = "completed"
  /\ session.testMode = "open-ended" => session.openEndedResult # <<>>
  /\ session.currentQuestionIndex < session.questions - 1

RepeatQuestion ==
  /\ NavigationShown
  /\ session' = repeatQuestion(session)
  /\ poolEffect
  /\ UNCHANGED <<scoring, now, mounted, adapters, hook, starts, timers, connectLog>>

NextQuestion ==
  /\ NavigationShown
  /\ session' = nextQuestion(session)
  /\ poolEffect
  /\ UNCHANGED <<scoring, now, mounted, adapters, hook, starts, timers, connectLog>>

\* ------------------------------------------------------------------------
\* Recording hook: startRecording()
\* ------------------------------------------------------------------------
\* Talk pressed (the button is disabled unless canTalk()): startRecording
\* up to its first await
TalkStart ==
  LET c == hook.recordingCycle + 1
      h1 == cleanupHook([hook EXCEPT !.errorRef = "null", !.recordingCycle = c])
      ad1 == cleanupAdapters(hook, adapters)
      s1 == storeStartRecording(session)
      viaPool == withAdapters(s1, h1, resetAdaptersForNewRecording(ad1),
                              pool.adapter)
  IN /\ mounted
     /\ canTalk(session)
     /\ hook.recordingCycle < MaxCycle
     /\ IF pool.isReady
        THEN /\ session' = viaPool.session
             /\ hook' = viaPool.hook
             /\ adapters' = viaPool.adapters
             /\ starts' = [starts EXCEPT ![c] =
                   [NoStart EXCEPT !.pc = viaPool.pc, !.ad = pool.adapter]]
        ELSE /\ session' = s1
             /\ hook' = [h1 EXCEPT !.usingFallback = TRUE]
             /\ adapters' = ad1
             /\ starts' = [starts EXCEPT ![c] =
                   [NoStart EXCEPT !.pc = "ondemand"]]
     /\ UNCHANGED <<scoring, now, mounted, pool, rounds, nextRound, timers, fetches,
                    lastInit, connectLog>>

\* createOnDemandAdapters has settled (oks: the providers whose token
\* request and connect() both succeeded): startRecording resumes with the
\* adapters that connected.  An adapter whose connect() failed is dropped
\* by the rejected promise and is not followed.
onDemandAdapters(c, oks) ==
  [q \in Providers |-> IF q \in oks THEN <<"ondemand", c, q>> ELSE NoAdapter]

OnDemandSettles(c, oks) ==
  LET adp == onDemandAdapters(c, oks)
      ad1 == [a \in AdapterIds |->
                IF a \in {<<"ondemand", c, q>> : q \in oks}
                THEN SessionReady(NewAdapter, hook.recordingCycle)
                ELSE adapters[a]]
      r == withAdapters(session, [hook EXCEPT !.fallback = adp], ad1, adp)
  IN /\ Following
     /\ starts[c].pc = "ondemand"
     /\ connectLog' = connectLog \cup
          {[via |-> "ondemand", stale |-> isTokenExpired(ExpiryIssuedAt(now))] :
             q \in oks}
     /\ session' = r.session
     /\ hook' = r.hook
     /\ adapters' = r.adapters
     /\ starts' = [starts EXCEPT ![c].ad = adp, ![c].pc = r.pc]
     /\ UNCHANGED <<scoring, now, mounted, pool, rounds, nextRound, timers, fetches,
                    lastInit>>

\* requestMicPermission() settles: the chunker starts and the max-recording
\* timeout is scheduled, or the catch block runs
MicSettles(c, ok) ==
  LET r == startCatch(session, hook, adapters, "Recording failed")
  IN /\ Following
     /\ starts[c].pc = "mic"
     /\ starts' = [starts EXCEPT ![c].pc = "done"]
     /\ IF ok
        THEN /\ hook' = [hook EXCEPT !.chunker = c, !.running = @ \cup {c}]
             /\ timers' = timers \cup {Pending("max", c)}
             /\ UNCHANGED <<session, adapters>>
        ELSE /\ session' = r.session
             /\ hook' = r.hook
             /\ adapters' = r.adapters
             /\ UNCHANGED timers
     /\ UNCHANGED <<scoring, now, mounted, pool, rounds, nextRound, fetches, lastInit,
                    connectLog>>

\* a chunk callback that delivers only while every adapter of the start
\* is connected: C20 fails on such a hook
frameTargetsAllOrNone(c) ==
  IF \A p \in Providers :
       starts[c].ad[p] # NoAdapter => Connected(adapters, starts[c].ad[p])
  THEN {starts[c].ad[p] : p \in Providers} \ {NoAdapter}
  ELSE {}

\* the adapters the chunk callback of start c calls sendAudio() on
frameTargets(c) ==
  {a \in {starts[c].ad[p] : p \in Providers} : Connected(adapters, a)}

\* the chunker of start c delivers a frame, captured now, to the adapters
\* start c holds
AudioChunk(c) ==
  /\ Following
  /\ c \in hook.running
  /\ starts[c].frames < MaxFrames
  /\ starts' = [starts EXCEPT ![c].frames = @ + 1]
  /\ adapters' = [a \in AdapterIds |->
        IF a \in frameTargets(c)
        THEN SendAudio(adapters, a, hook.recordingCycle)[a] ELSE adapters[a]]
  /\ UNCHANGED <<scoring, now, mounted, pool, rounds, nextRound, session, hook,
                 timers, fetches, lastInit, connectLog>>

\* ------------------------------------------------------------------------
\* Recording hook: stopRecording() and the timeouts
\* ------------------------------------------------------------------------
\* stopRecording(): the adapters are read from the pool
stopRecordingAdapters(ad) ==
  [a \in AdapterIds |->
     IF a \in Held(pool) /\ Connected(ad, a) THEN EndAudio(ad, a)[a] ELSE ad[a]]

stopRecording ==
  /\ session' = storeStopRecording(session)
  /\ hook' = [hook EXCEPT !.chunker = 0, !.running = @ \ {hook.chunker}]
  /\ adapters' = stopRecordingAdapters(adapters)
  /\ timers' = timers \cup {Pending("final", hook.recordingCycle)}

\* End pressed while recording
TalkEnd ==
  /\ mounted
  /\ session.recordingState = "listening"
  /\ stopRecording
  /\ UNCHANGED <<scoring, now, mounted, pool, rounds, nextRound, starts, fetches,
                 lastInit, connectLog>>

\* the max-recording timeout scheduled by the start of cycle c fires
MaxRecordingTimeout(c) ==
  LET t == Pending("max", c)
  IN /\ Following
     /\ t \in timers
     /\ IF ~IsCurrentCycle(hook, c)
        THEN /\ timers' = (timers \ {t}) \cup {Fired(t, "stale")}
             /\ UNCHANGED <<session, hook, adapters>>
        ELSE IF session.recordingState # "listening"
        THEN /\ timers' = (timers \ {t}) \cup {Fired(t, "skipped")}
             /\ UNCHANGED <<session, hook, adapters>>
        ELSE /\ session' = storeStopRecording(session)
             /\ hook' = [hook EXCEPT !.chunker = 0, !.running = @ \ {hook.chunker}]
             /\ adapters' = stopRecordingAdapters(adapters)
             /\ timers' = (timers \ {t}) \cup
                            {Fired(t, "ran"), Pending("final", hook.recordingCycle)}
     /\ UNCHANGED <<scoring, now, mounted, pool, rounds, nextRound, starts, fetches,
                    lastInit, connectLog>>

\* the finalization timeout scheduled by a stopRecording() in cycle c fires
FinalizationTimeout(c) ==
  LET t == Pending("final", c)
  IN /\ Following
     /\ t \in timers
     /\ timers' = (timers \ {t}) \cup
          {Fired(t, IF IsCurrentCycle(hook, c) THEN "ran" ELSE "stale")}
     /\ session' = finalizationTimeout(session, hook, c)
     /\ hook' = finalizationTimeoutHook(hook, c)
     /\ UNCHANGED <<scoring, now, mounted, pool, rounds, nextRound, adapters, starts,
                    fetches, lastInit, connectLog>>

\* ------------------------------------------------------------------------
\* Vendor messages and transport
\* ------------------------------------------------------------------------
\* the cycle whose audio the vendor's next message transcribes
VendorCycle(a) ==
  IF adapters[a].commits # <<>> THEN Head(adapters[a].commits)
  ELSE adapters[a].buffered

RecvPartial(a) ==
  LET text == <<VendorCycle(a)>>
  IN /\ Following
     /\ Connected(adapters, a)
     /\ VendorCycle(a) # 0
     /\ adapters' = handlePartialTranscript(adapters, a, text)
     /\ session' = IF a \in hook.listeners
                   THEN onTranscriptInterim(session, ProviderOf(a), text)
                   ELSE session
     /\ <<adapters', session'>> # <<adapters, session>>
     /\ UNCHANGED <<scoring, now, mounted, pool, rounds, nextRound, hook, starts,
                    timers, fetches, lastInit, connectLog>>

RecvCommitted(a) ==
  LET text == <<Head(adapters[a].commits)>>
      ad1 == handleCommittedTranscript(
               [adapters EXCEPT ![a].commits = Tail(@),
                                ![a].stamped = Head(adapters[a].commits)],
               a, text)
  IN /\ Following
     /\ Connected(adapters, a)
     /\ adapters[a].commits # <<>>
     /\ adapters' = ad1
     /\ session' = IF a \in hook.listeners
                   THEN onTranscriptFinal(
                          onTranscriptCommitted(session, ProviderOf(a), text),
                          ProviderOf(a), FinalEventText(ad1, a), ad1[a].words)
                   ELSE session
     /\ UNCHANGED <<scoring, now, mounted, pool, rounds, nextRound, hook, starts,
                    timers, fetches, lastInit, connectLog>>

\* the vendor follows the committed transcript it sent last with the same
\* text and its word timings
RecvCommittedWithTimestamps(a) ==
  LET c == adapters[a].stamped
      text == <<c>>
      words == <<[word |-> c, start |-> 0, end |-> 2, confidence |-> 1]>>
      ad1 == handleCommittedTranscriptWithTimestamps(
               [adapters EXCEPT ![a].stamped = 0], a, text, words)
      emitted == processWordTimings(adapters[a].words, words).emitted
      p == ProviderOf(a)
  IN /\ Following
     /\ Connected(adapters, a)
     /\ c # 0
     /\ adapters' = ad1
     /\ session' = IF a \in hook.listeners
                   THEN onTranscriptFinal(
                          onTranscriptCommitted(
                            IF emitted # <<>>
                            THEN updateProviderWords(session, p, ad1[a].words)
                            ELSE session, p, text),
                          p, FinalEventText(ad1, a), ad1[a].words)
                   ELSE session
     /\ UNCHANGED <<scoring, now, mounted, pool, rounds, nextRound, hook, starts,
                    timers, fetches, lastInit, connectLog>>

\* the connection_state_change listener on 'connected'
onConnected(s, provider) == updateProviderStatus(s, provider, "listening")

\* a session_started message on an open socket: handleSessionStarted sets
\* the flag and emits 'connected' whatever the adapter's state
RecvSessionStarted(a) ==
  /\ Following
  /\ ProviderOf(a) = "elevenlabs"
  /\ Connected(adapters, a)
  /\ adapters' = [adapters EXCEPT ![a].sessionStarted = TRUE,
                                  ![a].startedIn = hook.recordingCycle]
  /\ session' = IF a \in hook.listeners
                THEN onConnected(session, ProviderOf(a))
                ELSE session
  /\ UNCHANGED <<scoring, now, mounted, pool, rounds, nextRound, hook, starts, timers,
                 fetches, lastInit, connectLog>>

\* ElevenLabs reports an error (scribeError, scribeThrottledError,
\* input_error, ...)
RecvErrorEvent(a) ==
  /\ Following
  /\ ProviderOf(a) = "elevenlabs"
  /\ Connected(adapters, a)
  /\ adapters[a].status # "error"
  /\ Len(session.result[ProviderOf(a)].errors) < MaxVendorErrors
  /\ adapters' = handleErrorEvent(adapters, a)
  /\ session' = IF a \in hook.listeners
                THEN setProviderError(session, ProviderOf(a), "Unknown ElevenLabs error")
                ELSE session
  /\ UNCHANGED <<scoring, now, mounted, pool, rounds, nextRound, hook, starts, timers,
                 fetches, lastInit, connectLog>>

MessageKinds == {"binary", "unparseable", "unknown"}

\* the socket delivers a message handleMessage cannot dispatch; whether
\* addError() emits an error event is left open
RecvMalformed(a, kind) ==
  /\ Following
  /\ Connected(adapters, a)
  /\ \A b \in AdapterIds : adapters[b].handled = {}
  /\ \E emits \in BOOLEAN :
       /\ adapters' = handleMalformed(adapters, a, kind, emits)
       /\ session' = IF kind = "unparseable" /\ emits /\ a \in hook.listeners
                     THEN setProviderError(session, ProviderOf(a),
                                           "Failed to parse ElevenLabs message")
                     ELSE session
  /\ UNCHANGED <<scoring, now, mounted, pool, rounds, nextRound, hook, starts,
                 timers, fetches, lastInit, connectLog>>

\* the adapters whose socket failed after it had connected
TransportFailed ==
  {a \in AdapterIds :
     /\ adapters[a].conn = "error"
     /\ ~(a[1] = "pool" /\ rounds[a[2]].conn[a[3]] = "failed")}

\* the socket of a connected adapter fails
TransportError(a) ==
  /\ Following
  /\ Cardinality(TransportFailed) < MaxTransportErrors
  /\ Connected(adapters, a)
  /\ adapters' = [adapters EXCEPT ![a].conn = "error", ![a].status = "error",
                                  ![a].buffered = 0, ![a].commits = <<>>,
                                  ![a].stamped = 0]
  /\ session' = IF a \in hook.listeners
                THEN onConnectionError(session, ProviderOf(a))
                ELSE session
  /\ UNCHANGED <<scoring, now, mounted, pool, rounds, nextRound, hook, starts, timers,
                 fetches, lastInit, connectLog>>

\* ------------------------------------------------------------------------
\* useConnectionPool: reset after completion, teardown on unmount
\* ------------------------------------------------------------------------
\* the 500 ms timer armed while recordingState is completed
CompletedResetTimer ==
  /\ Following
  /\ session.recordingState = "completed"
  /\ adapters' = resetAdaptersForNewRecording(adapters)
  /\ adapters' # adapters
  /\ UNCHANGED <<scoring, now, mounted, pool, rounds, nextRound, session, hook, starts,
                 timers, fetches, lastInit, connectLog>>

\* the component unmounts: teardown() of the pool and cleanup() of the hook
Unmount(throwing) ==
  /\ mounted
  /\ throwing \subseteq Held(pool)
  /\ mounted' = FALSE
  /\ pool' = teardownPool(throwing)
  /\ hook' = cleanupHook(hook)
  /\ adapters' = cleanupAdapters(hook, teardownAdapters(adapters, throwing))
  /\ UNCHANGED <<scoring, now, rounds, nextRound, session, starts, timers, fetches,
                 lastInit, connectLog>>

\* ------------------------------------------------------------------------
\* Specifications
\* ------------------------------------------------------------------------
\* the user: bank, choice, Talk, End, Repeat, Next
UserStep ==
  \/ LoadBank
  \/ \E i \in 0..(NumChoices - 1) : SelectChoice(i)
  \/ RepeatQuestion
  \/ NextQuestion
  \/ TalkStart
  \/ TalkEnd

\* the pool's pending promises
PoolStep ==
  \/ \E r \in Rounds : \E exp1 \in FetchOutcomes(rounds[r].since) : TokenFetchSettles(r, exp1)
  \/ \E r \in Rounds, oks \in SUBSET Providers : ConnectSettles(r, oks)

\* the hook's pending promises and timeouts
HookStep ==
  \/ \E c \in Cycles, ok \in BOOLEAN : MicSettles(c, ok)
  \/ \E c \in Cycles : FinalizationTimeout(c)

FallbackStep == \E c \in Cycles, oks \in SUBSET Providers : OnDemandSettles(c, oks)

\* audio in, transcripts out
AudioStep ==
  \/ \E c \in Cycles : AudioChunk(c)
  \/ \E c \in Cycles : MaxRecordingTimeout(c)
  \/ \E a \in AdapterIds : RecvPartial(a)
  \/ \E a \in AdapterIds : RecvCommitted(a)
  \/ CompletedResetTimer

\* transport failures, the page going away
LifecycleStep ==
  \/ \E a \in AdapterIds : TransportError(a)
  \/ \E throwing \in SUBSET AdapterIds : Unmount(throwing)

Next ==
  \/ UserStep
  \/ PoolStep
  \/ HookStep
  \/ FallbackStep
  \/ AudioStep
  \/ LifecycleStep
  \/ Tick

Spec == Init /\ [][Next]_vars

\* the recording pipeline on the pooled connections: every token request
\* and connect() may fail, the clock stands still, the page stays
NextRecording == UserStep \/ PoolStep \/ HookStep \/ AudioStep

RecordingSpec == Init /\ [][NextRecording]_vars

\* the pool over time: attempts carry no audio (Talk, then End), tokens
\* age, the fallback connections stay pending
NextPool == UserStep \/ PoolStep \/ HookStep \/ Tick

PoolSpec == Init /\ [][NextPool]_vars

\* the fallback: attempts on connections made on demand, without audio
NextFallback == UserStep \/ PoolStep \/ HookStep \/ FallbackStep

FallbackSpec == Init /\ [][NextFallback]_vars

\* the fallback with audio: the pool's token requests stay pending, every
\* attempt runs on connections made on demand and carries frames
FallbackAudioSpec ==
  Init /\ [][\/ UserStep
             \/ HookStep
             \/ FallbackStep
             \/ \E c \in Cycles : AudioChunk(c)
             \/ \E c \in Cycles : MaxRecordingTimeout(c)
             \/ \E a \in AdapterIds : RecvPartial(a)]_vars

\* the end of the pool: sockets fail, the page goes away
NextTeardown == UserStep \/ PoolStep \/ HookStep \/ LifecycleStep

TeardownSpec == Init /\ [][NextTeardown]_vars

\* the page once the bank is loaded and the first initialize() round has
\* connected both providers with fresh tokens, before any recording
WarmRound ==
  [IdleRound EXCEPT !.phase = "done",
                    !.exp = [p \in Providers |-> ExpiryIssuedAt(0)],
                    !.conn = [p \in Providers |-> "ok"]]

WarmInit ==
  /\ now = 0
  /\ mounted = TRUE
  /\ pool = finishRound(1, WarmRound.conn,
                        [InitialPool EXCEPT !.token = WarmRound.exp])
  /\ rounds = [r \in Rounds |-> IF r = 1 THEN WarmRound ELSE IdleRound]
  /\ nextRound = 2
  /\ adapters = [a \in AdapterIds |->
        IF a \in {<<"pool", 1, p>> : p \in Providers}
        THEN SessionReady(NewAdapter, 0) ELSE AbsentAdapter]
  /\ session = loadBank(initialState, NumQuestions)
  /\ hook = InitialHook
  /\ starts = [c \in Cycles |-> NoStart]
  /\ timers = {}
  /\ fetches = Cardinality(Providers)
  /\ lastInit = "started"
  /\ connectLog = {[via |-> "pool", stale |-> FALSE]}
  /\ scoring = <<>>

\* attempts on the warm pool
AttemptStep ==
  \/ \E i \in 0..(NumChoices - 1) : SelectChoice(i)
  \/ RepeatQuestion
  \/ NextQuestion
  \/ TalkStart
  \/ TalkEnd

\* attempts on the warm pool whose commits the vendor repeats with word
\* timings
NextTimestamp ==
  \/ AttemptStep
  \/ HookStep
  \/ AudioStep
  \/ \E a \in AdapterIds : RecvCommittedWithTimestamps(a)

TimestampSpec == WarmInit /\ [][NextTimestamp]_vars

\* attempts on the warm pool with vendor errors and session messages
NextFailure ==
  \/ AttemptStep
  \/ HookStep
  \/ AudioStep
  \/ \E a \in AdapterIds : RecvErrorEvent(a)
  \/ \E a \in AdapterIds : RecvSessionStarted(a)

FailureSpec == WarmInit /\ [][NextFailure]_vars

\* attempts on the warm pool while a socket fails
NextTransport ==
  \/ AttemptStep
  \/ HookStep
  \/ AudioStep
  \/ \E a \in AdapterIds : TransportError(a)

TransportSpec == WarmInit /\ [][NextTransport]_vars

\* one attempt after the other on the warm pool, with messages the
\* adapter cannot dispatch
NextMalformed ==
  \/ AttemptStep
  \/ HookStep
  \/ AudioStep
  \/ \E a \in AdapterIds, kind \in MessageKinds : RecvMalformed(a, kind)

MalformedSpec == WarmInit /\ [][NextMalformed]_vars

\* scoreOpenEndedResponse(transcript) up to its await.  scoring: the call,
\* whether the store had a current question, the recording cycle it was
\* made in, whether it is a further call of that cycle, and how the call
\* ended (<<>> while scoreWithOpenAI is awaited)
ScoreOpenEndedResponse(transcript) ==
  LET currentQuestion == getCurrentQuestion(session)
      returns == \/ currentQuestion = "null"
                 \/ transcript = ""
                 \/ Len(trim(transcript)) = 0
  IN /\ mounted
     /\ IF scoring = <<>> THEN TRUE ELSE scoring.out # <<>>
     /\ session' = IF returns THEN session
                   ELSE [session EXCEPT !.isAIScoring = TRUE]
     /\ scoring' = [fn |-> "scoreOpenEndedResponse",
                    in |-> transcript,
                    question |-> currentQuestion # "null",
                    cycle |-> hook.recordingCycle,
                    again |-> IF scoring = <<>> THEN FALSE
                              ELSE /\ scoring.fn = "scoreOpenEndedResponse"
                                   /\ scoring.cycle = hook.recordingCycle,
                    out |-> IF returns THEN <<"returned">> ELSE <<>>]
     /\ UNCHANGED <<now, mounted, pool, rounds, nextRound, adapters, hook,
                    starts, timers, fetches, lastInit, connectLog>>

\* scoreWithOpenAI() has settled: with the parsed result, or with an error
\* (thrown: the message, "" for a value that is no Error)
ScoreOpenEndedSettles(ok, result, thrown) ==
  /\ scoring # <<>>
  /\ scoring.fn = "scoreOpenEndedResponse"
  /\ scoring.out = <<>>
  /\ session' =
       [session EXCEPT
          !.openEndedResult =
             IF ok THEN result
             ELSE [accuracy |-> 0, fluency |-> 0, structure |-> 0, overall |-> 0,
                   feedback |-> "Scoring failed: "
                      \o (IF thrown # "" THEN thrown ELSE "Unknown error")],
          !.isAIScoring = FALSE,
          !.recordingState = "completed"]
  /\ scoring' = [scoring EXCEPT !.out = <<IF ok THEN "success" ELSE "error">>]
  /\ UNCHANGED <<now, mounted, pool, rounds, nextRound, adapters, hook,
                 starts, timers, fetches, lastInit, connectLog>>

\* the text of a transcript: the words of cycle 1 are "alpha", those of
\* later cycles "bravo"
RECURSIVE Utterance(_)
Utterance(text) ==
  IF text = EmptyText THEN ""
  ELSE (IF Head(text) = SP THEN " " ELSE IF Head(text) = 1 THEN "alpha" ELSE "bravo")
       \o Utterance(Tail(text))

\* the mode toggle, disabled unless recordingState is idle
ModeChange(mode) ==
  /\ mounted
  /\ session.recordingState = "idle"
  /\ mode # session.testMode
  /\ session' = setTestMode(session, mode)
  /\ UNCHANGED <<scoring, now, mounted, pool, rounds, nextRound, adapters, hook,
                 starts, timers, fetches, lastInit, connectLog>>

\* the effect runs after the render that follows a store change
ScoringEffect ==
  /\ ScoringEffectDue
  /\ ScoreOpenEndedResponse(Utterance(
        OrText(session.result["openai"].transcript.finalText,
               session.result["openai"].transcript.committedText)))

\* open-ended attempts on the warm pool: the effect runs before the next
\* event is handled
OpenEndedRecordingSpec ==
  WarmInit /\
    [][\/ ScoringEffect
       \/ \E mode \in {"read-aloud", "open-ended"} : ModeChange(mode)
       \/ RepeatQuestion
       \/ NextQuestion
       \/ TalkStart
       \/ TalkEnd
       \/ HookStep
       \/ \E c \in Cycles : AudioChunk(c)
       \/ \E a \in AdapterIds : RecvPartial(a)
       \/ \E a \in AdapterIds : RecvCommitted(a)
       \/ \E ok \in BOOLEAN :
            ScoreOpenEndedSettles(ok,
              [accuracy |-> 80, fluency |-> 95, structure |-> 60,
               overall |-> 81, feedback |-> "Good readback."],
              "Chat API request timed out")]_vars

\* the store's question and scoring actions, without recordings
OpenEndedSpec ==
  Init /\ [][\/ LoadBank
             \/ \E i \in 0..(NumChoices - 1) : SelectChoice(i)
             \/ RepeatQuestion
             \/ NextQuestion
             \/ \E transcript \in {"", " ", "bowser one"} :
                  ScoreOpenEndedResponse(transcript)
             \/ \E ok \in BOOLEAN,
                   result \in {[accuracy |-> 80, fluency |-> 95, structure |-> 60,
                                overall |-> 81, feedback |-> "Good readback."],
                               [accuracy |-> 0, fluency |-> 100, structure |-> 0,
                                overall |-> 15, feedback |-> "Off topic."]},
                   thrown \in {"Chat API request timed out", ""} :
                  ScoreOpenEndedSettles(ok, result, thrown)]_vars

\* one call of a store action, whatever the rendered controls allow
StoreCall ==
  /\ session' \in
       {loadBank(session, bank) : bank \in 0..(NumQuestions + 1)}
       \cup {selectChoice(session, index) : index \in 0..NumChoices}
       \cup {goToQuestion(session, index) : index \in (0 - 1)..(NumQuestions + 1)}
       \cup {setTestMode(session, mode) : mode \in {"read-aloud", "open-ended"}}
       \cup {nextQuestion(session), previousQuestion(session),
             repeatQuestion(session), resetSession(session),
             storeStartRecording(session), storeStopRecording(session),
             setRecordingCompleted(session)}
  /\ UNCHANGED <<scoring, now, mounted, pool, rounds, nextRound, adapters, hook,
                 starts, timers, fetches, lastInit, connectLog>>

\* the session store alone, under any sequence of calls
StoreSpec == Init /\ [][StoreCall]_vars

\* the scoring functions, each called once on an input
ScoringInit ==
  /\ now = 0
  /\ mounted = TRUE
  /\ pool = InitialPool
  /\ rounds = [r \in Rounds |-> IdleRound]
  /\ nextRound = 1
  /\ adapters = [a \in AdapterIds |-> AbsentAdapter]
  /\ session = initialState
  /\ hook = InitialHook
  /\ starts = [c \in Cycles |-> NoStart]
  /\ timers = {}
  /\ fetches = 0
  /\ lastInit = "none"
  /\ connectLog = {}
  /\ LET ScoreSamples == {-5, 0, 1, 31, 50, 100, 130}
         Range(seq) == {seq[n] : n \in 1..Len(seq)}
         Pieces == {"Runway", "27", " ", ".", ",", "-", "roger", "that", "twenty"}
         Prefixes == Range(CALLSIGN_PREFIXES)
                       \cup {"runway", "heading", "altitude", "squawk", "flight level"}
         DigitStrings == {"1", "70", "27", "09"}
         Tens == {COMPOUND_NUMBERS[n][1] : n \in 11..18}
         Teens == {COMPOUND_NUMBERS[n][1] : n \in 1..10}
         Ones == {WORD_TO_DIGIT[n][1] : n \in 2..10}
         \* the words of a vendor message: two starts that round to the same
         \* millisecond, two confidences
         WordInfos == [word : {"alpha", "bravo"}, start : {1, 2}, end : {4},
                       confidence : {1, 2}]
         Batches(least, most) == UNION {[1..n -> WordInfos] : n \in least..most}
         \* expected answers and what a recognizer returns for them, with
         \* the bracketed annotations a recognizer writes for non-speech
         Spoken == {"", "runway two seven", "runway 27", "runway two five",
                    "runway two", "Runway two [missing]", "[missing]",
                    "[extra]"}
         Transcripts ==
           UNION {[1..n -> Pieces] : n \in 1..MaxPieces}
             \cup {<<p, " ", d>> : p \in Prefixes, d \in DigitStrings}
             \cup {<<t, " ", o>> : t \in Tens, o \in Ones}
             \cup {<<"runway", " ", t, " ", o>> : t \in Tens, o \in Ones}
             \cup {<<t>> : t \in Tens \cup Teens}
     IN scoring \in
          [fn : {"calculateOverall"},
           in : ScoreSamples \X ScoreSamples \X ScoreSamples,
           out : {<<>>}]
          \cup [fn : {"calculateFluency"}, in : 0..MaxFillers, out : {<<>>}]
          \cup [fn : {"normalizeRadioTranscript"}, in : Transcripts, out : {<<>>}]
          \cup [fn : {"processWordTimings"},
                in : Batches(1, MaxBatch) \X Batches(0, 1), out : {<<>>}]
          \cup [fn : {"compareTranscripts"},
                in : Spoken \X Spoken, out : {<<>>}]

Evaluate ==
  /\ scoring.out = <<>>
  /\ scoring' = [scoring EXCEPT !.out =
       CASE scoring.fn = "calculateOverall" ->
              <<calculateOverall(scoring.in[1], scoring.in[2], scoring.in[3])>>
         [] scoring.fn = "calculateFluency" ->
              <<calculateFluency(scoring.in)>>
         [] scoring.fn = "normalizeRadioTranscript" ->
              <<normalizeRadioTranscript(Concat(scoring.in))>>
         [] scoring.fn = "compareTranscripts" ->
              <<compareTranscripts(scoring.in[1], scoring.in[2])>>
         [] scoring.fn = "processWordTimings" ->
              LET first == processWordTimings(<<>>, scoring.in[1])
                  second == processWordTimings(first.wordTimings, scoring.in[2])
              IN <<first.wordTimings, first.emitted,
                   second.wordTimings, second.emitted>>]
  /\ UNCHANGED <<now, mounted, pool, rounds, nextRound, adapters, session,
                 hook, starts, timers, fetches, lastInit, connectLog>>

ScoringSpec == ScoringInit /\ [][Evaluate]_vars

\* ------------------------------------------------------------------------
\* Properties
\* ------------------------------------------------------------------------
RoundsInFlight == {r \in Rounds : rounds[r].phase \in {"fetching", "connecting"}}

\* C1: an initialize() call that arrives while isInitializing is true
\* issues no token request and leaves the pool as it is, so at most one
\* round is in flight at any time and every round started has issued
\* exactly one request per provider.
C1_InFlightInitializeIsNoOp ==
  /\ [][(EffectCallsInitialize /\ pool.isInitializing) =>
          (pool' = pool /\ fetches' = fetches /\ rounds' = rounds
             /\ nextRound' = nextRound)]_vars
  /\ [](Cardinality(RoundsInFlight) <= 1)
  /\ [](fetches = Cardinality(Providers) * (nextRound - 1))

\* an initialize() call has found a round in flight and returned
C1_Witness == lastInit = "inflight" /\ pool.isInitializing

RoundFinishes(r) == rounds[r].phase # "done" /\ rounds'[r].phase = "done"

ConnectedIn(r) == {q \in Providers : rounds[r].conn[q] = "ok"}

\* C2: at the step that finishes an initialize() round, isReady is true
\* exactly if some provider's adapter connected in that round, and with a
\* connection the pool's error is null, whatever happened to the other
\* provider.
C2_ReadyIffSomeProviderConnected ==
  [][\A r \in Rounds : RoundFinishes(r) =>
       /\ pool'.isReady <=> (ConnectedIn(r)' # {})
       /\ (ConnectedIn(r)' # {}) => pool'.error = "null"]_vars

\* a round has finished with one provider connected and the other not,
\* and the pool is ready without error
C2_Witness ==
  \E r \in Rounds :
    /\ rounds[r].phase = "done"
    /\ Cardinality(ConnectedIn(r)) = 1
    /\ pool.adapter = [q \in Providers |->
          IF q \in ConnectedIn(r) THEN <<"pool", r, q>> ELSE NoAdapter]
    /\ pool.isReady
    /\ pool.error = "null"

TimerFires(t) == t \in timers /\ t \notin timers'

\* C3: when a max-recording or finalization timeout scheduled in cycle c
\* fires after startRecording() has moved the recording cycle past c, the
\* session (recordingState, provider transcripts, status, scores) is left
\* exactly as it was.
C3_StaleTimeoutChangesNothing ==
  [][\A k \in {"max", "final"}, c \in Cycles :
       (TimerFires(Pending(k, c)) /\ c < hook.recordingCycle) =>
          session' = session]_vars

\* both kinds of timeout of cycle 1 have fired during a later cycle
C3_Witness ==
  /\ hook.recordingCycle > 1
  /\ Fired(Pending("max", 1), "stale") \in timers
  /\ Fired(Pending("final", 1), "stale") \in timers

\* C4: once repeatQuestion() or nextQuestion() has put the session back
\* to idle, a finalization timeout left over from the previous attempt
\* that fires before the next startRecording() leaves recordingState idle
\* and the provider results as they are.
C4_IdleSurvivesLateFinalization ==
  [][\A c \in Cycles :
       (session.recordingState = "idle" /\ TimerFires(Pending("final", c))) =>
          (session'.recordingState = "idle" /\ session'.result = session.result)]_vars

WordsOf(text) == {text[i] : i \in 1..Len(text)} \ {SP}

\* the recording cycles whose audio the session holds text of, for a provider
SessionWords(p) ==
  LET r == session.result[p]
  IN WordsOf(r.transcript.interimText) \cup WordsOf(r.transcript.committedText)
       \cup WordsOf(r.transcript.finalText) \cup WordsOf(r.metrics)

\* C5: the transcript and the scores the session holds for a provider
\* come from audio of the current recording cycle only: no event for the
\* audio of an earlier cycle is applied to a later cycle on the same warm
\* connection.
C5_NoTextOfEarlierCycle ==
  \A p \in Providers : SessionWords(p) \subseteq {hook.recordingCycle}

\* C6: whenever recordingState is processing, the finalization timeout of
\* the current cycle is pending, so that processing ends when it fires,
\* on every path into processing.
C6_ProcessingHasTimeout ==
  session.recordingState = "processing" =>
     Pending("final", hook.recordingCycle) \in timers

RecordingActive == session.recordingState \in {"listening", "processing"}

\* the pooled adapters the attempt in progress took at its start
AttemptPooled ==
  IF hook.recordingCycle = 0 THEN {}
  ELSE {a \in {starts[hook.recordingCycle].ad[p] : p \in Providers} \ {NoAdapter} :
          a[1] = "pool"}

\* C7: while an attempt is listening or processing, the pooled adapters
\* it took at its start are the ones the pool holds: no initialize()
\* round replaces them under the attempt.
C7_AttemptKeepsPooledAdapters ==
  RecordingActive => AttemptPooled \subseteq Held(pool)

\* C8: the pool rests in the error of a failed round (no provider
\* connected, nothing in flight) only once the attempts are used up:
\* before the ceiling of MAX_RECONNECT_ATTEMPTS a failed round is retried.
C8_TerminalErrorOnlyAfterCeiling ==
  (~pool.isInitializing /\ ~pool.isReady /\ pool.error = NoConnError) =>
     pool.reconnectAttempts + 1 >= MAX_RECONNECT_ATTEMPTS

\* C9: no connect(), by the pool or by the fallback, is called with a
\* token that is within TOKEN_REFRESH_BUFFER_MS of its expiry at the
\* moment of the call.
C9_NoConnectWithStaleToken == \A e \in connectLog : ~e.stale

TeardownStep == mounted /\ ~mounted'

\* C10: the step of teardown() leaves both token slots and both adapter
\* slots null, isReady and isInitializing false, error null and
\* reconnectAttempts 0, and has called disconnect() on every adapter the
\* pool held, also on one in the error state and also when a disconnect()
\* throws.
C10_TeardownClearsAndDisconnects ==
  [][TeardownStep =>
       /\ pool' = InitialPool
       /\ \A a \in Held(pool) :
            adapters'[a].disconnects = adapters[a].disconnects + 1]_vars

\* teardown() has run on a pool that held an adapter in the error state
\* whose disconnect() threw, and another adapter
C10_Witness ==
  /\ ~mounted
  /\ pool = InitialPool
  /\ \E a, b \in AdapterIds :
       /\ a # b
       /\ adapters[a].conn = "error" /\ adapters[a].disconnects = 1
       /\ adapters[b].disconnects = 1

\* the pool holds, for every provider, a token that is not within the
\* refresh buffer of its expiry
HoldsUnexpiredTokens ==
  \A p \in Providers :
    pool.token[p] # NoToken /\ now < pool.token[p] - TOKEN_REFRESH_BUFFER_MS

\* C11: an initialize() call made while the pool is ready and holds an
\* unexpired token for every provider issues no token request, opens no
\* connection and leaves every field of the pool as it is.
C11_ReadyInitializeIsNoOp ==
  [][(EffectCallsInitialize /\ pool.isReady /\ HoldsUnexpiredTokens) =>
       /\ pool' = pool
       /\ fetches' = fetches
       /\ rounds' = rounds /\ nextRound' = nextRound
       /\ connectLog' = connectLog
       /\ adapters' = adapters]_vars

\* an initialize() call has returned at the ready guard, on a pool that
\* was not initializing
C11_Witness ==
  /\ lastInit = "ready"
  /\ pool.isReady /\ ~pool.isInitializing /\ HoldsUnexpiredTokens


\* ------------------------------------------------------------------------
\* C12
\* ------------------------------------------------------------------------
\* a step in which resetAdaptersForNewRecording() runs: startRecording()
\* on a ready pool, or the timer armed on completion
ResetCalled ==
  \/ hook'.recordingCycle = hook.recordingCycle + 1 /\ pool.isReady
  \/ /\ session.recordingState = "completed"
     /\ adapters' = resetAdaptersForNewRecording(adapters)
     /\ adapters' # adapters
     /\ UNCHANGED <<session, hook, starts, timers>>

\* C12: resetAdaptersForNewRecording() resets every adapter the pool
\* holds (transcript and word timings back to their initial values) and
\* changes nothing else: the pool's tokens, adapter slots, isReady,
\* isInitializing and error stay as they are, every socket stays as it
\* was (no disconnect() call), and the session-ready flag keeps its value
C12_ResetKeepsPoolAndSockets ==
  [][ResetCalled =>
       /\ pool' = pool
       /\ \A a \in Held(pool) :
            /\ adapters'[a].transcript = InitialTranscript
            /\ adapters'[a].words = <<>>
            /\ adapters'[a].conn = adapters[a].conn
            /\ adapters'[a].sessionStarted = adapters[a].sessionStarted
            /\ adapters'[a].disconnects = adapters[a].disconnects]_vars

\* the timer has reset a pooled adapter whose words the store still shows
C12_Witness ==
  /\ session.recordingState = "completed"
  /\ \E a \in Held(pool) :
       /\ session.result[ProviderOf(a)].words # <<>>
       /\ adapters[a].frames > 0
       /\ adapters[a].transcript = InitialTranscript
       /\ adapters[a].words = <<>>
       /\ adapters[a].conn = "connected"
       /\ adapters[a].sessionStarted


\* ------------------------------------------------------------------------
\* C13
\* ------------------------------------------------------------------------
\* the commits an adapter has handled since its transcript was last reset:
\* each one appends its text and a blank to committedText, assigns
\* finalText and emits transcript_final
CommitsHandled(a) ==
  Cardinality({i \in 1..Len(adapters[a].transcript.committedText) :
                 adapters[a].transcript.committedText[i] # SP})

\* C13: between two resets of its transcript (one recording cycle) an
\* adapter assigns finalText and emits transcript_final at most once,
\* whatever messages the vendor sends
C13_FinalAtMostOncePerCycle ==
  \A a \in AdapterIds : CommitsHandled(a) <= 1


\* ------------------------------------------------------------------------
\* C14
\* ------------------------------------------------------------------------
\* committedText is extended, or cleared by the reset that starts a cycle
\* or follows its completion
AppendedOrReset(old, new) ==
  \/ new = EmptyText
  \/ Len(old) <= Len(new) /\ SubSeq(new, 1, Len(old)) = old

\* C14: within one recording cycle committedText only grows by
\* appending, in the adapter's transcript state and in the store's
\* transcript of the provider, which the transcript_committed listener
\* maintains
C14_CommittedTextIsAppendOnly ==
  [][/\ \A a \in AdapterIds :
          AppendedOrReset(adapters[a].transcript.committedText,
                          adapters'[a].transcript.committedText)
     /\ \A p \in Providers :
          AppendedOrReset(session.result[p].transcript.committedText,
                          session'.result[p].transcript.committedText)]_vars


\* ------------------------------------------------------------------------
\* C15
\* ------------------------------------------------------------------------
\* C15: once computeScores has written a provider's metrics and breakdown
\* they stay as written until the result is reset (Repeat, Next or the
\* next startRecording)
C15_ScoresWrittenOncePerCycle ==
  [][\A p \in Providers :
       session.result[p].metrics # NoMetrics =>
         session'.result[p].metrics \in {session.result[p].metrics, NoMetrics}]_vars


\* ------------------------------------------------------------------------
\* C16
\* ------------------------------------------------------------------------
\* the errors startRecording() itself records for a provider it has no
\* connected adapter for
StartErrors ==
  {<<>>, <<"Adapter not connected">>, <<"No adapter available">>}

\* C16: when startRecording() has run up to its microphone request, both
\* results hold the initial transcript, no words, no scores and no error
\* of the attempt before, and on a ready pool every pooled adapter has
\* been reset (no transcript, no word timings) with its socket as it was
C16_StartShowsNothingOfPreviousCycle ==
  [][hook'.recordingCycle = hook.recordingCycle + 1 =>
       /\ \A p \in Providers :
            /\ session'.result[p].transcript = InitialTranscript
            /\ session'.result[p].words = <<>>
            /\ session'.result[p].metrics = NoMetrics
            /\ session'.result[p].errors \in StartErrors
            /\ session'.result[p].errors # <<>> =>
                 ~Connected(adapters', starts'[hook'.recordingCycle].ad[p])
       /\ pool.isReady =>
            \A a \in Held(pool) :
              /\ adapters'[a].transcript = InitialTranscript
              /\ adapters'[a].words = <<>>
              /\ adapters'[a].conn = adapters[a].conn
              /\ adapters'[a].disconnects = adapters[a].disconnects]_vars

\* the second attempt has just started on the adapters of the first
C16_Witness ==
  /\ hook.recordingCycle = 2
  /\ starts[2].pc = "mic" /\ starts[2].frames = 0
  /\ session.recordingState = "listening"
  /\ \A p \in Providers :
       /\ session.result[p].transcript = InitialTranscript
       /\ session.result[p].metrics = NoMetrics
       /\ session.result[p].errors = <<>>
       /\ pool.adapter[p] # NoAdapter
       /\ adapters[pool.adapter[p]].frames > 0
       /\ adapters[pool.adapter[p]].transcript = InitialTranscript
       /\ adapters[pool.adapter[p]].conn = "connected"


\* ------------------------------------------------------------------------
\* C17
\* ------------------------------------------------------------------------
\* adapter a emits transcript_final in this step
EmitsFinal(a) == CommitsHandled(a)' > CommitsHandled(a)

Terminal == {"error", "completed"}

\* C18: an adapter in status error or completed never goes to listening
\* directly (resetForNewRecording() comes first), and the provider status
\* the store holds goes from error or completed to listening only in
\* the step that starts a recording cycle
C18_ListeningOnlyByNewCycle ==
  [][/\ \A a \in AdapterIds :
          adapters[a].status \in Terminal => adapters'[a].status # "listening"
     /\ \A p \in Providers :
          (/\ session.result[p].status \in Terminal
           /\ session'.result[p].status = "listening")
            => hook'.recordingCycle = hook.recordingCycle + 1]_vars


\* ------------------------------------------------------------------------
\* C19
\* ------------------------------------------------------------------------
\* C19: a message handleMessage cannot dispatch (binary, not JSON, unknown
\* message_type) surfaces an error event and changes nothing else: the
\* adapter's status, session-ready flag, transcript and word timings stay
\* as they were, and so do the other adapters and the other provider's
\* result
C19_MalformedIsSurfacedLocalError ==
  [][\A a \in AdapterIds :
       adapters'[a].handled # adapters[a].handled =>
         /\ \A m \in adapters'[a].handled \ adapters[a].handled : m.surfaced
         /\ adapters'[a].status = adapters[a].status
         /\ adapters'[a].sessionStarted = adapters[a].sessionStarted
         /\ adapters'[a].transcript = adapters[a].transcript
         /\ adapters'[a].words = adapters[a].words
         /\ \A b \in AdapterIds \ {a} : adapters'[b] = adapters[b]
         /\ session'.result[Other(ProviderOf(a))] =
              session.result[Other(ProviderOf(a))]]_vars


\* ------------------------------------------------------------------------
\* C20
\* ------------------------------------------------------------------------
\* C20: when the chunker of a start delivers a frame, each adapter of that
\* start gets one sendAudio() call if it is connected at that moment,
\* whatever the state of the other adapter, and otherwise the frame is
\* dropped for it: no call, nothing kept for later
C20_FrameSentIffConnected ==
  [][\A c \in Cycles :
       starts'[c].frames = starts[c].frames + 1 =>
         \A p \in Providers :
           LET a == starts[c].ad[p]
           IN a # NoAdapter =>
                IF Connected(adapters, a)
                THEN adapters'[a].frames = adapters[a].frames + 1
                ELSE adapters'[a] = adapters[a]]_vars

\* a frame went to one adapter of a start while the other one's socket
\* had failed
C20_Witness ==
  \E c \in Cycles, p \in Providers :
    LET a == starts[c].ad[p]
        b == starts[c].ad[Other(p)]
    IN /\ starts[c].frames > 0
       /\ a # NoAdapter /\ b # NoAdapter
       /\ adapters[a].frames > adapters[b].frames
       /\ adapters[b].conn = "error"
       /\ adapters[b].buffered = 0


\* ------------------------------------------------------------------------
\* C21
\* ------------------------------------------------------------------------
\* C21: when the finalization timeout fires in the cycle that scheduled
\* it, a provider that is not completed and has committed or interim text
\* gets finalText = committedText, or interimText if that is empty, is
\* scored from it and becomes completed; recordingState is completed
\* when the handler returns
C21_TimeoutFallsBackToBestText ==
  [][\A c \in Cycles :
       (TimerFires(Pending("final", c)) /\ IsCurrentCycle(hook, c)) =>
         /\ session'.recordingState = "completed"
         /\ \A p \in Providers :
              LET r == session.result[p]
                  best == IF r.transcript.committedText # EmptyText
                          THEN r.transcript.committedText
                          ELSE r.transcript.interimText
              IN (r.status # "completed" /\ best # EmptyText) =>
                   /\ session'.result[p].transcript.finalText = best
                   /\ session'.result[p].metrics = best
                   /\ session'.result[p].status = "completed"]_vars

\* the timeout has completed a provider from its interim text
C21_Witness ==
  /\ session.recordingState = "completed"
  /\ Fired(Pending("final", hook.recordingCycle), "ran") \in timers
  /\ \E p \in Providers :
       /\ session.result[p].transcript.committedText = EmptyText
       /\ session.result[p].transcript.interimText # EmptyText
       /\ session.result[p].transcript.finalText =
            session.result[p].transcript.interimText
       /\ session.result[p].metrics = session.result[p].transcript.interimText
       /\ session.result[p].status = "completed"


C25_OverallIsRoundedWeightedSum ==
  (scoring # <<>> /\ scoring.fn = "calculateOverall" /\ scoring.out # <<>>) =>
    LET Clamped(v) == IF v < 0 THEN 0 ELSE IF v > 100 THEN 100 ELSE v
        a == Clamped(scoring.in[1])
        f == Clamped(scoring.in[2])
        st == Clamped(scoring.in[3])
    IN /\ scoring.out[1] \in 0..100
       /\ scoring.out[1] = (50 * a + 30 * f + 20 * st + 50) \div 100


\* ------------------------------------------------------------------------
\* C26
\* ------------------------------------------------------------------------
\* C26: the fluency score is 100 - min(50, 5 * totalFillers): one filler
\* more never raises it, costs exactly 5 points up to 10 fillers and
\* nothing beyond, and the score is never below 50
C26_FluencyIsCappedPenalty ==
  (scoring # <<>> /\ scoring.fn = "calculateFluency" /\ scoring.out # <<>>) =>
    LET n == scoring.in
        score == scoring.out[1]
    IN /\ score = 100 - (IF 5 * n < 50 THEN 5 * n ELSE 50)
       /\ score >= 50
       /\ \A m \in 0..n : calculateFluency(m) >= score
       /\ n >= 1 =>
            calculateFluency(n - 1) - score = (IF n <= 10 THEN 5 ELSE 0)

\* a transcript with more than ten fillers has been scored at the floor
C26_Witness ==
  /\ scoring # <<>>
  /\ scoring.fn = "calculateFluency"
  /\ scoring.in > 10
  /\ scoring.out = <<50>>


\* ------------------------------------------------------------------------
\* C27, C28, C29
\* ------------------------------------------------------------------------
\* C27: normalizing a normalized transcript changes nothing
C27_NormalizeIsIdempotent ==
  (scoring # <<>> /\ scoring.fn = "normalizeRadioTranscript" /\ scoring.out # <<>>) =>
    normalizeRadioTranscript(scoring.out[1]) = scoring.out[1]

\* C28: a recognized prefix followed by a digit string normalizes to the
\* same text as the prefix followed by the digits spelled out one by one
C28_PrefixedDigitsAreSpelledOut ==
  (/\ scoring # <<>>
   /\ scoring.fn = "normalizeRadioTranscript"
   /\ scoring.out # <<>>
   /\ Len(scoring.in) = 3
   /\ \/ \E n \in 1..Len(CALLSIGN_PREFIXES) : scoring.in[1] = CALLSIGN_PREFIXES[n]
      \/ scoring.in[1] \in {"runway", "heading", "altitude", "squawk", "flight level"}
   /\ scoring.in[2] = " "
   /\ scoring.in[3] # ""
   /\ \A i \in 1..Len(scoring.in[3]) : IsDigit(CharAt(scoring.in[3], i))) =>
    scoring.out[1] =
      normalizeRadioTranscript(scoring.in[1] \o " " \o digitsToSpoken(scoring.in[3]))

\* C29: a tens word and a ones word become the two digit words, a tens word
\* alone its digit and 'zero', a teen word 'one' and its second digit, also
\* after 'runway'
C29_CompoundNumbersAreDigitWords ==
  (scoring # <<>> /\ scoring.fn = "normalizeRadioTranscript" /\ scoring.out # <<>>) =>
    LET tens == <<"twenty", "thirty", "forty", "fifty", "sixty", "seventy",
                  "eighty", "ninety">>
        teens == <<"ten", "eleven", "twelve", "thirteen", "fourteen", "fifteen",
                   "sixteen", "seventeen", "eighteen", "nineteen">>
        digit == <<"zero", "one", "two", "three", "four", "five", "six",
                   "seven", "eight", "nine">>
        in == scoring.in
        out == scoring.out[1]
    IN /\ \A t \in 1..8, o \in 1..9 :
            /\ in = <<tens[t], " ", digit[o + 1]>> =>
                 out = digit[t + 2] \o " " \o digit[o + 1]
            /\ in = <<"runway", " ", tens[t], " ", digit[o + 1]>> =>
                 /\ out = "runway " \o digit[t + 2] \o " " \o digit[o + 1]
                 /\ out = normalizeRadioTranscript(
                            "runway " \o digit[t + 2] \o " " \o digit[o + 1])
       /\ \A t \in 1..8 : in = <<tens[t]>> => out = digit[t + 2] \o " zero"
       /\ \A t \in 1..10 : in = <<teens[t]>> => out = "one " \o digit[t]

\* 'runway twenty seven' has been normalized
C29_Witness ==
  /\ scoring # <<>>
  /\ scoring.fn = "normalizeRadioTranscript"
  /\ scoring.in = <<"runway", " ", "twenty", " ", "seven">>
  /\ scoring.out = <<"runway two seven">>


\* ------------------------------------------------------------------------
\* C23
\* ------------------------------------------------------------------------
\* C23: after each of two successive vendor messages of a cycle the word
\* timing list holds no two entries with the same (word, startMs, endMs);
\* the list after the first message is the beginning of the list after the
\* second; the word_timing events carry, in order, exactly the entries of
\* the list, one event for each
C23_WordTimingsAreDistinctAndAppended ==
  (scoring # <<>> /\ scoring.fn = "processWordTimings" /\ scoring.out # <<>>) =>
    LET Triple(w) == <<w.word, w.startMs, w.endMs>>
        Distinct(list) == \A i, j \in 1..Len(list) :
                            Triple(list[i]) = Triple(list[j]) => i = j
        Sent == scoring.in[1] \o scoring.in[2]
        first == scoring.out[1]
        second == scoring.out[3]
    IN /\ Distinct(first)
       /\ Distinct(second)
       /\ Len(first) <= Len(second)
       /\ SubSeq(second, 1, Len(first)) = first
       /\ scoring.out[2] \o scoring.out[4] = second
       /\ {Triple(second[i]) : i \in 1..Len(second)} =
            {<<Sent[n].word, (Sent[n].start + 1) \div 2, (Sent[n].end + 1) \div 2>> :
               n \in 1..Len(Sent)}

\* the second message repeated a timing of the first, under another
\* confidence and an unrounded start that differs, and brought a new one
C23_Witness ==
  /\ scoring # <<>>
  /\ scoring.fn = "processWordTimings"
  /\ scoring.out # <<>>
  /\ Len(scoring.in[1]) = 2
  /\ Len(scoring.in[2]) = 1
  /\ scoring.in[2][1].word = scoring.in[1][1].word
  /\ scoring.in[2][1].start # scoring.in[1][1].start
  /\ scoring.in[2][1].confidence # scoring.in[1][1].confidence
  /\ Len(scoring.out[1]) = 2
  /\ scoring.out[3] = scoring.out[1]
  /\ scoring.out[4] = <<>>


\* ------------------------------------------------------------------------
\* C24
\* ------------------------------------------------------------------------
\* a start of cycle c that ran to its end without any adapter
StartedWithoutAdapter(c) ==
  /\ hook.recordingCycle = c
  /\ starts[c].pc = "done"
  /\ \A p \in Providers : starts[c].ad[p] = NoAdapter

C30_OpenEndedScoringCompletes ==
  [][(/\ scoring' # scoring
      /\ scoring' # <<>>
      /\ scoring'.fn = "scoreOpenEndedResponse"
      /\ scoring'.out # <<>>
      /\ scoring'.question
      /\ scoring'.in # "") =>
       /\ ~session'.isAIScoring
       /\ session'.recordingState = "completed"
       /\ session'.openEndedResult # <<>>
       /\ scoring'.out = <<"error">> =>
            /\ session'.openEndedResult.accuracy = 0
            /\ session'.openEndedResult.fluency = 0
            /\ session'.openEndedResult.structure = 0
            /\ session'.openEndedResult.overall = 0
            /\ session'.openEndedResult.feedback # ""]_vars


\* ------------------------------------------------------------------------
\* C32
\* ------------------------------------------------------------------------
\* C32: the store's startRecording() sets recordingState to 'listening'
\* exactly when canTalk() holds (bank loaded, recordingState idle and, in
\* read-aloud mode, a choice selected), and in every other state it returns
\* the store unchanged
C32_StartsIffCanTalk ==
  /\ canTalk(session) <=>
       /\ session.questionBank
       /\ session.recordingState = "idle"
       /\ session.testMode = "read-aloud" => session.selectedChoiceIndex # NoChoice
  /\ canTalk(session) =>
       /\ storeStartRecording(session).recordingState = "listening"
       /\ storeStartRecording(session) # session
  /\ ~canTalk(session) => storeStartRecording(session) = session

\* a recording was started in open-ended mode without a choice, and a
\* read-aloud store without a choice refuses
C32_Witness ==
  /\ session.testMode = "open-ended"
  /\ session.selectedChoiceIndex = NoChoice
  /\ session.recordingState = "listening"
  /\ \A p \in Providers : session.result[p].status = "connecting"
  /\ ~canTalk(setTestMode(repeatQuestion(session), "read-aloud"))


\* ------------------------------------------------------------------------
\* C40
\* ------------------------------------------------------------------------
\* C40: with a non-empty bank loaded the current question index is at
\* least 0 and below the number of questions, whatever store calls were
\* made; nextQuestion at the last question, previousQuestion at the first
\* and goToQuestion with an index out of range return the store unchanged
C40_QuestionIndexInRange ==
  (session.questionBank /\ session.questions > 0) =>
    /\ session.currentQuestionIndex >= 0
    /\ session.currentQuestionIndex < session.questions
    /\ session.currentQuestionIndex = session.questions - 1 =>
         nextQuestion(session) = session
    /\ session.currentQuestionIndex = 0 => previousQuestion(session) = session
    /\ \A index \in {0 - 2, 0 - 1, session.questions, session.questions + 1} :
         goToQuestion(session, index) = session

\* the last question of a bank of several questions, reached in open-ended
\* mode after an attempt
C40_Witness ==
  /\ session.questionBank
  /\ session.questions > 1
  /\ session.currentQuestionIndex = session.questions - 1
  /\ session.testMode = "open-ended"
  /\ session.recordingState = "completed"


\* ------------------------------------------------------------------------
\* C33
\* ------------------------------------------------------------------------
\* C33: an adapter that a finished initialize() round connected is, in
\* every state, held in a slot of the pool or has had disconnect() called
\* on it: a later round closes the adapters it replaces
C33_PoolAdaptersHeldOrDisconnected ==
  \A r \in Rounds, p \in Providers :
    (rounds[r].phase = "done" /\ rounds[r].conn[p] = "ok") =>
      \/ <<"pool", r, p>> \in Held(pool)
      \/ adapters[<<"pool", r, p>>].disconnects > 0


\* ------------------------------------------------------------------------
\* C34
\* ------------------------------------------------------------------------
\* C34: the step of stopRecording() calls endAudio() on every connected
\* adapter that holds audio of the current cycle, whether the start took
\* it from the pool or created it on demand
C34_StopEndsAudioOfEveryAdapter ==
  [][\A c \in Cycles :
       (/\ hook.recordingCycle = c
        /\ Pending("final", c) \notin timers
        /\ Pending("final", c) \in timers') =>
         \A a \in AdapterIds :
           (Connected(adapters, a) /\ adapters[a].buffered = c) =>
              adapters'[a] = EndAudio(adapters, a)[a]]_vars


\* ------------------------------------------------------------------------
\* C35
\* ------------------------------------------------------------------------
\* C35: recordingState changes only from idle to listening, from listening
\* to processing, from processing to completed, or from any state to idle;
\* it never becomes completed directly from idle or from listening
C35_RecordingStateMachine ==
  [][session'.recordingState # session.recordingState =>
       \/ session'.recordingState = "idle"
       \/ <<session.recordingState, session'.recordingState>> \in
            {<<"idle", "listening">>, <<"listening", "processing">>,
             <<"processing", "completed">>}]_vars


\* ------------------------------------------------------------------------
\* C36
\* ------------------------------------------------------------------------
\* C36: once teardown() has run and the initialize() round that was in
\* flight has finished, the pool holds no adapter and no token and is not
\* ready; and never more than one round is in flight
C36_TeardownSurvivesLateRound ==
  /\ Cardinality(RoundsInFlight) <= 1
  /\ (~mounted /\ RoundsInFlight = {}) =>
       /\ \A p \in Providers : pool.adapter[p] = NoAdapter
       /\ \A p \in Providers : pool.token[p] = NoToken
       /\ ~pool.isReady


\* ------------------------------------------------------------------------
\* C37
\* ------------------------------------------------------------------------
\* C37: a chunker (and its microphone stream) runs only while
\* recordingState is 'listening': none runs after stopRecording() or after
\* a failed start, also when the stop came while the start was awaiting
C37_ChunkerOnlyWhileListening ==
  hook.running # {} => session.recordingState = "listening"


\* ------------------------------------------------------------------------
\* C31
\* ------------------------------------------------------------------------
\* C31: for an empty or whitespace-only transcript the open-ended path
\* makes no call of the external scoring service, and the attempt still
\* ends with openEndedResult set to an explicit result
C31_EmptyTranscriptGetsExplicitResult ==
  /\ (/\ scoring # <<>>
      /\ scoring.fn = "scoreOpenEndedResponse"
      /\ Len(trim(scoring.in)) = 0) => scoring.out = <<"returned">>
  /\ (/\ session.testMode = "open-ended"
      /\ session.recordingState = "completed"
      /\ OrText(session.result["openai"].transcript.finalText,
                session.result["openai"].transcript.committedText) = EmptyText) =>
       session.openEndedResult # <<>>


\* ------------------------------------------------------------------------
\* C38
\* ------------------------------------------------------------------------
\* C38: in open-ended mode, a recording cycle in which the OpenAI provider
\* has completed with a transcript has had scoreOpenEndedResponse called
\* by the time recordingState is completed, and no cycle has it called a
\* second time
C38_ScoredOncePerCycle ==
  /\ (scoring # <<>> /\ scoring.fn = "scoreOpenEndedResponse") => ~scoring.again
  /\ (/\ session.testMode = "open-ended"
      /\ session.recordingState = "completed"
      /\ session.result["openai"].status = "completed"
      /\ OrText(session.result["openai"].transcript.finalText,
                session.result["openai"].transcript.committedText) # EmptyText) =>
       /\ scoring # <<>>
       /\ scoring.fn = "scoreOpenEndedResponse"
       /\ scoring.cycle = hook.recordingCycle


\* ------------------------------------------------------------------------
\* C39
\* ------------------------------------------------------------------------
\* the tokens of a normalized string: none for the empty string
TokensOf(normalized) ==
  LET words[i \in 0..Len(normalized)] ==
        IF i = 0 THEN <<>>
        ELSE IF CharAt(normalized, i) = " " THEN words[i - 1]
        ELSE IF i = 1 \/ CharAt(normalized, i - 1) = " "
             THEN Append(words[i - 1], CharAt(normalized, i))
        ELSE [words[i - 1] EXCEPT ![Len(words[i - 1])] =
                @ \o CharAt(normalized, i)]
  IN words[Len(normalized)]

\* the positions at which two token sequences differ, those only one of
\* them has included
DifferingPositions(left, right) ==
  {i \in 1..(Len(left) + Len(right)) :
     \/ i <= Len(left) /\ i <= Len(right) /\ left[i] # right[i]
     \/ i <= Len(left) /\ i > Len(right)
     \/ i > Len(left) /\ i <= Len(right)}

\* C39: compareTranscripts reports the two transcripts as equivalent exactly
\* when their normalized strings are equal, its list of differences is
\* empty exactly when they are equivalent, and otherwise the list has one
\* entry for every position at which the normalized token sequences differ
C39_DifferencesMatchEquivalence ==
  (scoring # <<>> /\ scoring.fn = "compareTranscripts" /\ scoring.out # <<>>) =>
    LET result == scoring.out[1]
    IN /\ result.isEquivalent <=>
            (result.normalizedExpected = result.normalizedActual)
       /\ (result.differences = <<>>) <=> result.isEquivalent
       /\ Len(result.differences) =
            Cardinality(DifferingPositions(TokensOf(result.normalizedExpected),
                                           TokensOf(result.normalizedActual)))

====
